---- MODULE Spec2Model ----
(***************************************************************************)
(* Model of the directory-tree traversal-and-transfer engine               *)
(* (lib/script_utils.py: CopyMethod, WalkObject) and of the task-bundle    *)
(* writer/reader (write_task_bundles, read_task_bundle).                   *)
(*                                                                         *)
(* Paths are sequences of names; the empty sequence stands for Python's    *)
(* None.  A name pattern is the set of names it matches.                   *)
(***************************************************************************)
EXTENDS Integers, Sequences, FiniteSets, TLC

VARIABLES
    \* ---- WalkObject configuration (fixed by __init__) ----
    cfg,          \* record of the constructor arguments
    \* ---- filesystem ----
    srcFiles,     \* set of existing source file paths
    dstDirs,      \* set of existing destination directory paths
    dstFiles,     \* function: existing destination file path -> content tag
    \* ---- one walk() iterator ----
    pc,           \* "init" | "walking" | "done" | "error"
    err,          \* name of the exception that ended the walk, or "none"
    stack,        \* stack of _walk frames, innermost last
    walkDst,      \* self.dstdir as set by walk()
    run,          \* number of the walk() call on this WalkObject
    calls,        \* mutating filesystem calls performed in this run
    execs,        \* CopyMethod.exec calls issued in this run
    yields,       \* tuples yielded in this run
    \* ---- standalone CopyMethod.exec ----
    xcm,          \* the CopyMethod instance: kind and runtime options
    xSrcs,        \* set of existing source file paths
    xFiles,       \* function: existing destination file path -> content tag
    xPrims,       \* primitive calls performed by all exec calls so far
    xLast,        \* record of the most recent exec call
    xCount,       \* number of exec calls made
    \* ---- task bundles ----
    taskList,     \* the task list handed to write_task_bundles
    perBundle,    \* tasks_per_bundle
    haveNumpy,    \* whether "import numpy" succeeds
    bpc,          \* "init" | "written" | "read" | "error"
    bundleFiles,  \* sequence of written bundle files, each a sequence of lines
    bundleNames,  \* sequence of the returned bundle file names
    readBack,     \* concatenation of the task lists read back so far
    readIdx,      \* number of bundle files read back
    \* ---- file_transfer.main: building the task list ----
    mEnv,         \* SYNC_MODE_GLOBAL, the destination argument and the source paths
    mDst,         \* the variable dst_path of the task loop
    mIdx,         \* number of source paths handled
    mTasks,       \* all_task_list
    mLast,        \* record of the most recent adjust_dst_path call
    mpc,          \* "idle" | "run" | "done" | "error"
    \* ---- submit_tasks_to_scheduler ----
    sEnv,         \* the parent arguments and the task list
    sJobNum,      \* job_num
    sCmds,        \* the submission commands built so far, one record per job
    sCalls,       \* the subprocess.call attempts made so far
    sErr,         \* name of the exception that ended the call, or "none"
    spc,          \* "idle" | "run" | "done" | "error"
    \* ---- ArgumentPasser.get_jobsubmit_cmd called on its own ----
    jIn,          \* the arguments and the jobscript of the call
    jOut,         \* what the call returned or raised
    \* ---- read_task_bundle called on a given file ----
    rIn,          \* the file and the column options
    rOut,         \* what the call returned or raised
    \* ---- file_transfer.perform_tasks ----
    pEnv,         \* the options of the invocation and the task list
    pIdx,         \* number of tasks handled
    pLog,         \* what each handled task made perform_tasks do
    pSrcs,        \* set of existing source file paths
    pFiles,       \* function: existing destination file path -> content tag
    ppc,          \* "idle" | "run" | "done" | "error"
    \* ---- WalkObject construction ----
    cmHeap,       \* the CopyMethod objects: cmHeap[i] holds the options of object i
    wObjs,        \* the WalkObjects built so far, each with its copy_method
    kErr,         \* the exception that left WalkObject(...)
    kpc,          \* "idle", "run" or "error"
    \* ---- walk() iterators of one WalkObject ----
    tObj,         \* the WalkObject: its options and the attributes walk() assigns
    tIts,         \* the walk() iterators made from it: arguments, state and frames
    tDirs,        \* destination directories
    tFiles,       \* destination files
    tLog,         \* the exec calls made, each with the iterator that made it
    tpc,          \* "idle" or "run"
    \* ---- file_transfer: bundles handed to child invocations ----
    hEnv,         \* the parent invocation: its tasks, --tasks-per-job and --srclist-delim
    hFiles,       \* the lines of each bundle file written by the parent
    hRead,        \* what each child invocation made of its bundle, in job order
    hpc           \* "idle", "parent" or "children"

walkVars == <<cfg, srcFiles, dstDirs, dstFiles, pc, err, stack, walkDst, run,
              calls, execs, yields>>
execVars == <<xcm, xSrcs, xFiles, xPrims, xLast, xCount>>
bundleVars == <<taskList, perBundle, haveNumpy, bpc, bundleFiles, bundleNames,
                readBack, readIdx>>
mainVars == <<mEnv, mDst, mIdx, mTasks, mLast, mpc>>
submitVars == <<sEnv, sJobNum, sCmds, sCalls, sErr, spc, jIn, jOut>>
readVars == <<rIn, rOut>>
performVars == <<pEnv, pIdx, pLog, pSrcs, pFiles, ppc>>
constructVars == <<cmHeap, wObjs, kErr, kpc>>
iterVars == <<tObj, tIts, tDirs, tFiles, tLog, tpc>>
handoffVars == <<hEnv, hFiles, hRead, hpc>>
vars == <<walkVars, execVars, bundleVars, mainVars, submitVars, readVars,
         performVars,
         constructVars,
         iterVars,
         handoffVars>>

----------------------------------------------------------------------------
(* Bounds *)

MaxDepthArg == 2     \* mindepth and finite maxdepth arguments range over 0..MaxDepthArg
MaxRuns == 2         \* walk() calls made one after the other on one WalkObject
MaxCalls == 2        \* standalone exec calls
MaxTasks == 4        \* length of the task list
MaxPerBundle == 3    \* tasks_per_bundle
MaxGlob == 2         \* source paths a '*' pattern expands to
MaxCondLines == 2    \* lines of a jobscript
MaxSubmitTasks == 4  \* parent tasks of a submitted batch
ManyTasks == 1000    \* parent tasks of a batch with a four-digit job count
MaxRows == 3         \* lines of a bundle file read with column checks
MaxPerformTasks == 3 \* tasks handed to perform_tasks

----------------------------------------------------------------------------
(* Paths *)

None == <<>>
Inf == 99

Join(p, n) == Append(p, n)
Basename(p) == p[Len(p)]
Dirname(p) == SubSeq(p, 1, Len(p) - 1)
IsUnder(p, d) == Len(p) > Len(d) /\ SubSeq(p, 1, Len(d)) = d

\* os.makedirs(p): creates p and every missing ancestor
MakeDirs(dirs, p) == dirs \cup {SubSeq(p, 1, k) : k \in 1..Len(p)}

----------------------------------------------------------------------------
(* CopyMethod *)

Kinds == {"copy", "move", "hardlink", "symlink", "mklink"}

\* CopyMethod.__init__: `mklink` takes (link, target), everything else (source, destination)
ReverseArgs(kind) == kind = "mklink"

ActionVerb(kind) ==
    CASE kind = "copy" -> "COPYING"
      [] kind = "move" -> "MOVING"
      [] kind = "hardlink" -> "HARDLINKING"
      [] OTHER -> "SYMLINKING"

\* CopyMethod.exec: proceed_with_copy
ProceedAlways(cm, dstfile_exists) == TRUE
ProceedWithCopy(cm, dstfile_exists) ==
    IF dstfile_exists THEN cm.overwrite ELSE TRUE

\* CopyMethod.exec: whether os.remove(dstfile) is called
RemovesDstNever(cm, dstfile_exists) == FALSE
RemovesDst(cm, dstfile_exists) ==
    ~cm.dryrun /\ ProceedWithCopy(cm, dstfile_exists) /\ dstfile_exists /\ cm.overwrite

\* CopyMethod.exec: whether the shell command or copy function is invoked
InvokesTransfer(cm, dstfile_exists) ==
    ~cm.dryrun /\ ProceedWithCopy(cm, dstfile_exists)

\* CopyMethod.exec: argument order handed to the primitive
TransferArgs(cm, srcfile, dstfile) ==
    IF ReverseArgs(cm.kind) THEN <<dstfile, srcfile>> ELSE <<srcfile, dstfile>>

RemoveCall(dstfile) == [op |-> "remove", kind |-> "os.remove", args |-> <<dstfile>>]
TransferCall(cm, srcfile, dstfile) ==
    [op |-> "transfer", kind |-> cm.kind, args |-> TransferArgs(cm, srcfile, dstfile)]

\* CopyMethod.exec: the primitive calls it makes, in order
ExecPrimsTransferFirst(cm, srcfile, dstfile, dstfile_exists) ==
    (IF InvokesTransfer(cm, dstfile_exists)
        THEN <<TransferCall(cm, srcfile, dstfile)>> ELSE <<>>)
    \o (IF RemovesDst(cm, dstfile_exists) THEN <<RemoveCall(dstfile)>> ELSE <<>>)
ExecPrims(cm, srcfile, dstfile, dstfile_exists) ==
    (IF RemovesDst(cm, dstfile_exists) THEN <<RemoveCall(dstfile)>> ELSE <<>>)
    \o (IF InvokesTransfer(cm, dstfile_exists)
           THEN <<TransferCall(cm, srcfile, dstfile)>> ELSE <<>>)

\* effect of the primitives on the file table
RemoveFile(files, p) == [q \in DOMAIN files \ {p} |-> files[q]]
PutFile(files, p, c) == [q \in DOMAIN files \cup {p} |-> IF q = p THEN c ELSE files[q]]
PrimNewPath(call) == IF call.kind = "mklink" THEN call.args[1] ELSE call.args[2]
PrimFrom(call) == IF call.kind = "mklink" THEN call.args[2] ELSE call.args[1]

\* CopyMethod.exec: overwrite_action; filecmp.cmp compares the two contents
OverwriteAction(cm, srcfile, dstfile, files) ==
    IF dstfile \notin DOMAIN files THEN ""
    ELSE IF cm.overwrite THEN "OVERWRITING"
    ELSE IF ActionVerb(cm.kind) \in {"HARDLINKING", "LINKING"} /\ files[dstfile] = srcfile
         THEN "SKIPPING; correct link already exists"
    ELSE "SKIPPING; destination file already exists"

\* CopyMethod.exec: the lines it prints
ExecPrinted(cm, srcfile, dstfile, files) ==
    (IF cm.verbose
        THEN <<[dryrun |-> cm.dryrun, verb |-> ActionVerb(cm.kind),
                src |-> srcfile, dst |-> dstfile,
                note |-> OverwriteAction(cm, srcfile, dstfile, files)]>>
        ELSE <<>>)
    \o (IF cm.debug /\ ProceedWithCopy(cm, dstfile \in DOMAIN files)
           THEN <<TransferCall(cm, srcfile, dstfile)>> ELSE <<>>)

\* CopyMethod.exec(srcfile, dstfile) on source set `srcs` and destination
\* table `files`; `fail` says whether the transfer primitive raises
Exec(cm, srcfile, dstfile, srcs, files, fail) ==
    LET exists == dstfile \in DOMAIN files
        prims == ExecPrims(cm, srcfile, dstfile, exists)
        removed == \E i \in 1..Len(prims) : prims[i].op = "remove"
        invoked == \E i \in 1..Len(prims) : prims[i].op = "transfer"
        tcall == TransferCall(cm, srcfile, dstfile)
        files1 == IF removed THEN RemoveFile(files, dstfile) ELSE files
        files2 == IF invoked /\ ~fail
                     THEN PutFile(files1, PrimNewPath(tcall), PrimFrom(tcall))
                     ELSE files1
        srcs2 == IF invoked /\ ~fail /\ cm.kind = "move" THEN srcs \ {srcfile} ELSE srcs
    IN  [existed |-> exists,
         skipped |-> ~ProceedWithCopy(cm, exists),
         prims |-> prims,
         files |-> files2,
         srcs |-> srcs2,
         failed |-> invoked /\ fail]

----------------------------------------------------------------------------
(* The source tree that is walked, and the destination it is walked into *)

SrcRoot == <<"S">>
DstRoot == <<"D">>

File(n) == [name |-> n, isdir |-> FALSE]
Dir(n) == [name |-> n, isdir |-> TRUE]

\* directory entries in the order the list function returns them
Listing(d) ==
    CASE d = <<"S">> -> <<File("a.txt"), Dir("sub"), File("skip.log"), Dir("other")>>
      [] d = <<"S", "sub">> -> <<File("a.txt"), Dir("deep"), File("b.txt")>>
      [] d = <<"S", "sub", "deep">> -> <<File("c.txt")>>
      [] OTHER -> <<>>

SrcDirs == {<<"S">>, <<"S", "sub">>, <<"S", "sub", "deep">>, <<"S", "other">>}
AllSrcFiles ==
    {Join(d, Listing(d)[i].name) : <<d, i>> \in
        {<<d, i>> \in SrcDirs \X (1..4) : i <= Len(Listing(d)) /\ ~Listing(d)[i].isdir}}

\* destination states a walk can start from
DstStates == {"absent", "present"}
Dst0Dirs(st) == IF st = "present" THEN {DstRoot} ELSE {}
Dst0Files(st) ==
    IF st = "present" THEN [p \in {Join(DstRoot, "a.txt")} |-> <<"old">>]
    ELSE [p \in {} |-> <<"old">>]

----------------------------------------------------------------------------
(* WalkObject configuration *)

NoDepth == -1     \* dmatch_maxdepth=None

TxtPattern == {"a.txt", "b.txt", "c.txt"}     \* the glob *.txt

FileCfgs ==
    { [rematch |-> <<>>, reexcl |-> <<>>, resub |-> <<>>],
      [rematch |-> <<TxtPattern>>, reexcl |-> <<{"b.txt"}>>, resub |-> <<>>],
      [rematch |-> <<>>, reexcl |-> <<>>, resub |-> << <<"a.txt", "z.txt">> >>] }

DirCfgs ==
    { [rematch |-> <<>>, reexcl |-> <<>>, resub |-> <<>>, maxd |-> NoDepth],
      [rematch |-> <<{"sub"}>>, reexcl |-> <<>>, resub |-> <<>>, maxd |-> NoDepth],
      [rematch |-> <<{"sub"}>>, reexcl |-> <<>>, resub |-> <<>>, maxd |-> 1],
      [rematch |-> <<{"S"}>>, reexcl |-> <<>>, resub |-> <<>>, maxd |-> 2],
      [rematch |-> <<>>, reexcl |-> <<{"sub"}>>, resub |-> <<>>, maxd |-> NoDepth],
      [rematch |-> <<>>, reexcl |-> <<>>, resub |-> << <<"sub", "bus">> >>, maxd |-> NoDepth] }

WalkKinds == {"copy", "move"}

ConfigRecords ==
    [ mindepth : 0..MaxDepthArg,
      maxdepth : (0..MaxDepthArg) \cup {Inf},
      fcfg : FileCfgs,
      dcfg : DirCfgs,
      has_copy : BOOLEAN,          \* copy_method is not None
      kind : WalkKinds,
      overwrite : BOOLEAN,         \* copy_overwrite
      dryrun : BOOLEAN,            \* copy_dryrun
      transplant : BOOLEAN,        \* transplant_tree
      collapse : BOOLEAN,          \* collapse_tree
      mkdir_upon_file_copy : BOOLEAN,
      dstdir : {None, DstRoot},    \* the dstdir argument of walk()
      dst0 : DstStates ]

\* without a destination argument the state of the destination is irrelevant
Configs == {c \in ConfigRecords : c.dstdir = None => c.dst0 = "absent"}

\* WalkObject.__init__: dmatch_nomaxdepth
DmatchNoMaxdepth(c) ==
    IF c.dcfg.rematch = <<>> THEN TRUE
    ELSE IF ~c.has_copy THEN c.dcfg.maxd = NoDepth
    ELSE FALSE

\* WalkObject.__init__: dmatch_maxdepth
DmatchMaxdepth(c) == IF c.dcfg.maxd = NoDepth THEN Inf ELSE c.dcfg.maxd

\* the CopyMethod instance the walk uses (copy_method_inst)
WalkCopyMethod(c) == [kind |-> c.kind, overwrite |-> c.overwrite, dryrun |-> c.dryrun]

----------------------------------------------------------------------------
(* Name matching and renaming *)

\* rematch_function(re_pattern, name)
ReMatch(pattern, name) == name \in pattern

\* the include/exclude loops of _walk
NameMatches(rematch, reexcl, name) ==
    LET included == IF rematch # <<>>
                       THEN \E i \in 1..Len(rematch) : ReMatch(rematch[i], name)
                       ELSE TRUE
    IN  IF reexcl # <<>> /\ included
           THEN ~\E i \in 1..Len(reexcl) : ReMatch(reexcl[i], name)
           ELSE included

\* resub_function applied rule after rule
RECURSIVE ReSub(_, _)
ReSub(resub, name) ==
    IF resub = <<>> THEN name
    ELSE ReSub(Tail(resub), IF name = Head(resub)[1] THEN Head(resub)[2] ELSE name)

----------------------------------------------------------------------------
(* WalkObject._walk, piece by piece *)

HasDirPatterns(c) == c.dcfg.rematch # <<>> \/ c.dcfg.reexcl # <<>>

\* walk(): the depth of the source root's listing
StartDepth == 1

\* walk(): dmatch_depth handed to the first _walk call
StartDmatchDepth(c) == IF DmatchNoMaxdepth(c) THEN -1 ELSE 0

\* _walk: dmatch_depth after the test of the source root's own name
EnterDmatchDepth(c, srcdir, depth, dmatch_depth) ==
    IF depth = 1 /\ dmatch_depth = 0
          /\ NameMatches(c.dcfg.rematch, c.dcfg.reexcl, Basename(srcdir))
       THEN 1
       ELSE dmatch_depth

\* _walk: srcdname_passes
SrcdnamePassesUnbounded(c, dmatch_depth) == dmatch_depth # 0
SrcdnamePasses(c, dmatch_depth) ==
    dmatch_depth <= DmatchMaxdepth(c) /\ dmatch_depth # 0

\* _walk: the eager os.makedirs(dstdir) taken before the directory is listed
EagerMkdir(c, dstdir, passes, dirs) ==
    /\ dstdir # None
    /\ c.has_copy
    /\ dstdir \notin dirs
    /\ ~c.mkdir_upon_file_copy
    /\ passes

\* _walk: dstdir_exists after the eager branch
DstdirExists(c, dstdir, passes, dirs) ==
    /\ dstdir # None
    /\ c.has_copy
    /\ (dstdir \in dirs \/ EagerMkdir(c, dstdir, passes, dirs))

\* _walk: the listing loop
RECURSIVE DNamesOf(_)
DNamesOf(entries) ==
    IF entries = <<>> THEN <<>>
    ELSE (IF Head(entries).isdir THEN <<Head(entries).name>> ELSE <<>>)
         \o DNamesOf(Tail(entries))

DNamesPass(c, dnames) ==
    [i \in 1..Len(dnames) |-> NameMatches(c.dcfg.rematch, c.dcfg.reexcl, dnames[i])]

RECURSIVE FNamesFiltered(_, _, _, _)
FNamesFiltered(c, srcdir, entries, srcs) ==
    IF entries = <<>> THEN <<>>
    ELSE (IF /\ ~Head(entries).isdir
             /\ Join(srcdir, Head(entries).name) \in srcs
             /\ NameMatches(c.fcfg.rematch, c.fcfg.reexcl, Head(entries).name)
          THEN <<Head(entries).name>> ELSE <<>>)
         \o FNamesFiltered(c, srcdir, Tail(entries), srcs)

\* _walk: "if depth >= self.mindepth"
IgnoresMindepth(c, depth) == TRUE
AtOrBelowMindepth(c, depth) == depth >= c.mindepth

\* _walk: the guard of the copy loop
CopiesHere(c, depth, passes, dstdir) ==
    AtOrBelowMindepth(c, depth) /\ passes /\ c.has_copy /\ dstdir # None

\* _walk: the os.makedirs(dstdir) taken right before the copy loop
CopyMkdirAlways(c, depth, passes, dstdir, dstdir_exists, fnames) ==
    /\ CopiesHere(c, depth, passes, dstdir)
    /\ ~c.dryrun
    /\ ~dstdir_exists
CopyMkdir(c, depth, passes, dstdir, dstdir_exists, fnames) ==
    /\ CopiesHere(c, depth, passes, dstdir)
    /\ ~c.dryrun
    /\ ~dstdir_exists
    /\ (~c.mkdir_upon_file_copy \/ fnames # <<>>)

\* _walk: dnames_filtered
RECURSIVE SelectPassing(_, _)
SelectPassing(dnames, pass) ==
    IF dnames = <<>> THEN <<>>
    ELSE (IF pass[1] THEN <<Head(dnames)>> ELSE <<>>)
         \o SelectPassing(Tail(dnames), Tail(pass))

DNamesFiltered(c, passes, dnames, dnames_pass) ==
    IF passes /\ ~DmatchNoMaxdepth(c) THEN dnames
    ELSE IF ~HasDirPatterns(c) THEN dnames
    ELSE SelectPassing(dnames, dnames_pass)

\* _walk: dmatch_depth handed to the recursive call for subdirectory i
DmatchDepthNext(c, dmatch_depth, dnames_pass, i) ==
    LET next_pass == IF dmatch_depth < 0 THEN dmatch_depth ELSE 1
        next_fail == IF dmatch_depth <= 0 THEN dmatch_depth ELSE dmatch_depth + 1
    IN  IF ~HasDirPatterns(c) \/ dnames_pass[i] THEN next_pass ELSE next_fail

\* _walk: dstdir handed to the recursive call for subdirectory dn
DstdirNextMirrorOnly(c, dstdir, dn) ==
    IF dstdir = None THEN None
    ELSE Join(dstdir, ReSub(c.dcfg.resub, dn))
DstdirNext(c, dstdir, dn) ==
    IF dstdir = None THEN None
    ELSE IF c.collapse THEN dstdir
    ELSE Join(dstdir, ReSub(c.dcfg.resub, dn))

\* _walk: the destination of one file
DstFile(c, dstdir, fname) == Join(dstdir, ReSub(c.fcfg.resub, fname))

MkdirCall(p) == [op |-> "makedirs", kind |-> "os.makedirs", args |-> <<p>>]

NewFrame(srcdir, dstdir, depth, dmatch_depth) ==
    [srcdir |-> srcdir, dstdir |-> dstdir, depth |-> depth,
     dmatch_depth |-> dmatch_depth, phase |-> "enter",
     passes |-> FALSE, dnames |-> <<>>, dnames_pass |-> <<>>, fnames |-> <<>>,
     fidx |-> 1, didx |-> 1]

Top == stack[Len(stack)]
SetTop(f) == [stack EXCEPT ![Len(stack)] = f]
Popped == SubSeq(stack, 1, Len(stack) - 1)
PcAfterPop == IF Len(stack) = 1 THEN "done" ELSE "walking"

----------------------------------------------------------------------------
(* WalkObject.walk and the steps of the _walk generator *)

\* walk(): self.dstdir
WalkDstdir(c) ==
    IF c.transplant THEN Join(c.dstdir, Basename(SrcRoot)) ELSE c.dstdir

\* walk(): "if ... os.path.isdir(self.dstdir): os.makedirs(self.dstdir)"
WalkMkdirRaises(c, dst, dirs) == c.has_copy /\ dst # None /\ dst \in dirs

\* walk() up to the first _walk call
WalkStart ==
    /\ pc = "init"
    /\ IF ~cfg.has_copy
          THEN \* self.copy_method.copy_overwrite on None
               /\ pc' = "error" /\ err' = "AttributeError"
               /\ UNCHANGED <<stack, walkDst>>
       ELSE IF cfg.transplant /\ cfg.dstdir = None
          THEN \* os.path.join(None, ...)
               /\ pc' = "error" /\ err' = "TypeError"
               /\ UNCHANGED <<stack, walkDst>>
       ELSE IF WalkMkdirRaises(cfg, WalkDstdir(cfg), dstDirs)
          THEN \* os.makedirs on an existing directory
               /\ pc' = "error" /\ err' = "FileExistsError"
               /\ walkDst' = WalkDstdir(cfg)
               /\ UNCHANGED stack
       ELSE /\ pc' = "walking"
            /\ walkDst' = WalkDstdir(cfg)
            /\ stack' = <<NewFrame(SrcRoot, WalkDstdir(cfg), StartDepth,
                                   StartDmatchDepth(cfg))>>
            /\ UNCHANGED err
    /\ UNCHANGED <<cfg, srcFiles, dstDirs, dstFiles, run, calls, execs, yields>>
    /\ UNCHANGED <<execVars, bundleVars, mainVars, submitVars, readVars, performVars, constructVars, iterVars, handoffVars>>

\* _walk from its first line to the start of the copy loop
WalkEnter ==
    /\ pc = "walking"
    /\ Top.phase = "enter"
    /\ IF Top.depth > cfg.maxdepth
          THEN /\ stack' = Popped
               /\ pc' = PcAfterPop
               /\ UNCHANGED <<dstDirs, calls>>
          ELSE LET f == Top
                   dmd == EnterDmatchDepth(cfg, f.srcdir, f.depth, f.dmatch_depth)
                   passes == SrcdnamePasses(cfg, dmd)
                   eager == EagerMkdir(cfg, f.dstdir, passes, dstDirs)
                   exists == DstdirExists(cfg, f.dstdir, passes, dstDirs)
                   dnames == DNamesOf(Listing(f.srcdir))
                   fnames == IF passes
                                THEN FNamesFiltered(cfg, f.srcdir, Listing(f.srcdir), srcFiles)
                                ELSE <<>>
                   lazy == CopyMkdir(cfg, f.depth, passes, f.dstdir, exists, fnames)
                   copies == CopiesHere(cfg, f.depth, passes, f.dstdir)
               IN  /\ dstDirs' = IF eager \/ lazy THEN MakeDirs(dstDirs, f.dstdir)
                                 ELSE dstDirs
                   /\ calls' = IF eager \/ lazy THEN Append(calls, MkdirCall(f.dstdir))
                               ELSE calls
                   /\ stack' = SetTop([f EXCEPT
                          !.dmatch_depth = dmd,
                          !.passes = passes,
                          !.dnames = dnames,
                          !.dnames_pass = IF HasDirPatterns(cfg)
                                             THEN DNamesPass(cfg, dnames) ELSE <<>>,
                          !.fnames = fnames,
                          !.phase = IF copies /\ fnames # <<>> THEN "exec"
                                    ELSE IF AtOrBelowMindepth(cfg, f.depth) THEN "yield"
                                    ELSE "recurse"])
                   /\ UNCHANGED pc
    /\ UNCHANGED <<cfg, srcFiles, dstFiles, err, walkDst, run, execs, yields>>
    /\ UNCHANGED <<execVars, bundleVars, mainVars, submitVars, readVars, performVars, constructVars, iterVars, handoffVars>>

\* the copy loop: an exception of the transfer primitive is caught neither by
\* CopyMethod.exec nor by _walk
ExecRaisesNever(r) == FALSE
ExecRaises(r) == r.failed

\* one iteration of the copy loop: self.copy_method_inst.exec(srcfile, dstfile)
WalkExec ==
    /\ pc = "walking"
    /\ Top.phase = "exec"
    /\ \E fail \in BOOLEAN :
         LET f == Top
             fname == f.fnames[f.fidx]
             srcfile == Join(f.srcdir, fname)
             dstfile == DstFile(cfg, f.dstdir, fname)
             r == Exec(WalkCopyMethod(cfg), srcfile, dstfile, srcFiles, dstFiles, fail)
         IN  /\ execs' = Append(execs, [src |-> srcfile, dst |-> dstfile,
                                        existed |-> r.existed, failed |-> r.failed,
                                        nyields |-> Len(yields)])
             /\ calls' = calls \o r.prims
             /\ dstFiles' = r.files
             /\ srcFiles' = r.srcs
             /\ IF ExecRaises(r)
                   THEN /\ pc' = "error" /\ err' = "TransferError"
                        /\ UNCHANGED stack
                   ELSE /\ stack' = SetTop([f EXCEPT
                               !.fidx = f.fidx + 1,
                               !.phase = IF f.fidx = Len(f.fnames) THEN "yield" ELSE "exec"])
                        /\ UNCHANGED <<pc, err>>
    /\ UNCHANGED <<cfg, dstDirs, walkDst, run, yields>>
    /\ UNCHANGED <<execVars, bundleVars, mainVars, submitVars, readVars, performVars, constructVars, iterVars, handoffVars>>

\* yield srcdir, dnames_filtered, fnames_filtered
WalkYield ==
    /\ pc = "walking"
    /\ Top.phase = "yield"
    /\ yields' = Append(yields,
           [dir |-> Top.srcdir,
            dnames |-> DNamesFiltered(cfg, Top.passes, Top.dnames, Top.dnames_pass),
            fnames |-> Top.fnames,
            nexecs |-> Len(execs)])
    /\ stack' = SetTop([Top EXCEPT !.phase = "recurse"])
    /\ UNCHANGED <<cfg, srcFiles, dstDirs, dstFiles, pc, err, walkDst, run, calls, execs>>
    /\ UNCHANGED <<execVars, bundleVars, mainVars, submitVars, readVars, performVars, constructVars, iterVars, handoffVars>>

\* _walk: "for i, dn in enumerate(dnames)": the n-th recursive call is for
\* the n-th listed subdirectory
DescendOrderReversed(dnames, n) == Len(dnames) + 1 - n
DescendOrder(dnames, n) == n

\* the recursive call for the next subdirectory
WalkDescend ==
    /\ pc = "walking"
    /\ Top.phase = "recurse"
    /\ Top.dnames # <<>>
    /\ Top.depth < cfg.maxdepth
    /\ Top.didx <= Len(Top.dnames)
    /\ LET f == Top
           i == DescendOrder(f.dnames, f.didx)
           dn == f.dnames[i]
       IN  stack' = Append(SetTop([f EXCEPT !.didx = f.didx + 1]),
                           NewFrame(Join(f.srcdir, dn),
                                    DstdirNext(cfg, f.dstdir, dn),
                                    f.depth + 1,
                                    DmatchDepthNext(cfg, f.dmatch_depth, f.dnames_pass, i)))
    /\ UNCHANGED <<cfg, srcFiles, dstDirs, dstFiles, pc, err, walkDst, run,
                   calls, execs, yields>>
    /\ UNCHANGED <<execVars, bundleVars, mainVars, submitVars, readVars, performVars, constructVars, iterVars, handoffVars>>

\* _walk returns after its last subdirectory
WalkReturn ==
    /\ pc = "walking"
    /\ Top.phase = "recurse"
    /\ ~(Top.dnames # <<>> /\ Top.depth < cfg.maxdepth /\ Top.didx <= Len(Top.dnames))
    /\ stack' = Popped
    /\ pc' = PcAfterPop
    /\ UNCHANGED <<cfg, srcFiles, dstDirs, dstFiles, err, walkDst, run,
                   calls, execs, yields>>
    /\ UNCHANGED <<execVars, bundleVars, mainVars, submitVars, readVars, performVars, constructVars, iterVars, handoffVars>>

\* the same walk() is called again on the same WalkObject after it completed
WalkAgain ==
    /\ pc = "done"
    /\ run < MaxRuns
    /\ run' = run + 1
    /\ pc' = "init"
    /\ calls' = <<>>
    /\ execs' = <<>>
    /\ yields' = <<>>
    /\ UNCHANGED <<cfg, srcFiles, dstDirs, dstFiles, err, stack, walkDst>>
    /\ UNCHANGED <<execVars, bundleVars, mainVars, submitVars, readVars, performVars, constructVars, iterVars, handoffVars>>

HandoffIdle ==
    /\ hEnv = [n |-> 0]
    /\ hFiles = <<>>
    /\ hRead = <<>>
    /\ hpc = "idle"


IterIdle ==
    /\ tObj = [n |-> 0]
    /\ tIts = <<>>
    /\ tDirs = {}
    /\ tFiles = [p \in {} |-> <<"old">>]
    /\ tLog = <<>>
    /\ tpc = "idle"


ConstructIdle ==
    /\ cmHeap = <<>>
    /\ wObjs = <<>>
    /\ kErr = "none"
    /\ kpc = "idle"


PerformIdle ==
    /\ pEnv = [n |-> 0]
    /\ pIdx = 0
    /\ pLog = <<>>
    /\ pSrcs = {}
    /\ pFiles = [p \in {} |-> <<"old">>]
    /\ ppc = "idle"


MainIdle ==
    /\ mEnv = [glob |-> FALSE]
    /\ mDst = None
    /\ mIdx = 0
    /\ mTasks = <<>>
    /\ mLast = [n |-> 0]
    /\ mpc = "idle"

SubmitIdle ==
    /\ sEnv = [n |-> 0]
    /\ sJobNum = 0
    /\ sCmds = <<>>
    /\ sCalls = <<>>
    /\ sErr = "none"
    /\ spc = "idle"
    /\ jIn = [n |-> 0]
    /\ jOut = [n |-> 0]

ReadIdle ==
    /\ rIn = [n |-> 0]
    /\ rOut = [n |-> 0]

ExecIdle ==
    /\ xcm = [kind |-> "copy", overwrite |-> FALSE, dryrun |-> FALSE,
              verbose |-> TRUE, debug |-> FALSE]
    /\ xSrcs = {}
    /\ xFiles = [p \in {} |-> <<"old">>]
    /\ xPrims = <<>>
    /\ xLast = [n |-> 0]
    /\ xCount = 0

BundleIdle ==
    /\ taskList = <<>>
    /\ perBundle = 1
    /\ haveNumpy = FALSE
    /\ bpc = "idle"
    /\ bundleFiles = <<>>
    /\ bundleNames = <<>>
    /\ readBack = <<>>
    /\ readIdx = 0

WalkIdle ==
    /\ cfg = [has_copy |-> FALSE]
    /\ srcFiles = {}
    /\ dstDirs = {}
    /\ dstFiles = [p \in {} |-> <<"old">>]
    /\ pc = "idle"
    /\ err = "none"
    /\ stack = <<>>
    /\ walkDst = None
    /\ run = 0
    /\ calls = <<>>
    /\ execs = <<>>
    /\ yields = <<>>

InitWalk ==
    /\ cfg \in Configs
    /\ srcFiles = AllSrcFiles
    /\ dstDirs = Dst0Dirs(cfg.dst0)
    /\ dstFiles = Dst0Files(cfg.dst0)
    /\ pc = "init"
    /\ err = "none"
    /\ stack = <<>>
    /\ walkDst = None
    /\ run = 1
    /\ calls = <<>>
    /\ execs = <<>>
    /\ yields = <<>>
    /\ ExecIdle
    /\ BundleIdle
    /\ MainIdle
    /\ SubmitIdle
    /\ ReadIdle
    /\ PerformIdle
    /\ ConstructIdle
    /\ IterIdle
    /\ HandoffIdle

NextWalk ==
    \/ WalkStart
    \/ WalkEnter
    \/ WalkExec
    \/ WalkYield
    \/ WalkDescend
    \/ WalkReturn
    \/ WalkAgain

SpecWalk == InitWalk /\ [][NextWalk]_vars

----------------------------------------------------------------------------
(* Properties of the walk *)

WalkEnded == pc \in {"done", "error"}

\* directory-match state with which _walk reaches source directory d
RECURSIVE DmatchDepthAt(_)
DmatchDepthAt(d) ==
    IF d = SrcRoot
       THEN EnterDmatchDepth(cfg, d, StartDepth, StartDmatchDepth(cfg))
       ELSE LET up == DmatchDepthAt(Dirname(d))
                next_pass == IF up < 0 THEN up ELSE 1
                next_fail == IF up <= 0 THEN up ELSE up + 1
            IN  IF \/ ~HasDirPatterns(cfg)
                   \/ NameMatches(cfg.dcfg.rematch, cfg.dcfg.reexcl, Basename(d))
                   THEN next_pass ELSE next_fail

PassesDirMatching(d) == SrcdnamePasses(cfg, DmatchDepthAt(d))
DepthOf(d) == Len(d) - Len(SrcRoot) + StartDepth

\* files of d that match the file include/exclude rules
QualifyingFiles(d) ==
    {f \in AllSrcFiles : Dirname(f) = d
                         /\ NameMatches(cfg.fcfg.rematch, cfg.fcfg.reexcl, Basename(f))}

CountIn(seq, name) == Cardinality({i \in 1..Len(seq) : seq[i] = name})
YieldsOf(d) == {i \in 1..Len(yields) : yields[i].dir = d}
ExecsOf(f) == {i \in 1..Len(execs) : execs[i].src = f}
MkdirsIn(log) == {log[i].args[1] : i \in {j \in 1..Len(log) : log[j].op = "makedirs"}}

\* C1: with the dryrun option set, no step of the walk changes the
\* destination tree or performs a mutating filesystem call.
C1_DryRunNoMutation ==
    cfg.dryrun =>
        /\ dstDirs = Dst0Dirs(cfg.dst0)
        /\ dstFiles = Dst0Files(cfg.dst0)
        /\ calls = <<>>

\* C2: when a walk with destination and copy method has ended without a
\* transfer failure, every qualifying file of every directory within the depth
\* bounds that passes directory matching is exactly once in the file list
\* yielded for its directory and has exactly one exec call, and every exec
\* call is for a file of a yielded list.
C2_EveryFileOnce ==
    (WalkEnded /\ err # "TransferError" /\ run = 1
        /\ cfg.has_copy /\ cfg.dstdir # None) =>
        /\ \A d \in SrcDirs :
             (cfg.mindepth <= DepthOf(d) /\ DepthOf(d) <= cfg.maxdepth
                 /\ PassesDirMatching(d)) =>
                \A f \in QualifyingFiles(d) :
                    /\ Cardinality(YieldsOf(d)) = 1
                    /\ \A i \in YieldsOf(d) : CountIn(yields[i].fnames, Basename(f)) = 1
                    /\ Cardinality(ExecsOf(f)) = 1
        /\ \A k \in 1..Len(execs) :
             \E i \in YieldsOf(Dirname(execs[k].src)) :
                CountIn(yields[i].fnames, Basename(execs[k].src)) = 1

\* C3 as stated: with mindepth=2 and maxdepth=2 only directories two levels
\* below the source root are yielded.
C3_Orig_TwoLevelsBelow ==
    (cfg.mindepth = 2 /\ cfg.maxdepth = 2) =>
        \A i \in 1..Len(yields) : Len(yields[i].dir) = Len(SrcRoot) + 2

\* C3 (amended): with mindepth=2 and maxdepth=2 only directories exactly one
\* level below the source root (walk depth 2) are yielded; the source root
\* and the directories two or more levels below it yield nothing.
C3_DepthBoundary ==
    (cfg.mindepth = 2 /\ cfg.maxdepth = 2) =>
        \A i \in 1..Len(yields) : Len(yields[i].dir) = Len(SrcRoot) + 1

C3_Witness ==
    /\ cfg.mindepth = 2 /\ cfg.maxdepth = 2
    /\ pc = "done"
    /\ \E i \in 1..Len(yields) :
         yields[i].dir = <<"S", "sub">> /\ yields[i].fnames # <<>>

\* C4: a second run of the same sync-mode walk with overwrite disabled, after
\* a first run that completed and transferred files, ends without error and
\* performs no mutating filesystem call.
C4_SecondRunIdle ==
    (run = 2 /\ cfg.has_copy /\ cfg.dstdir # None /\ ~cfg.dryrun
        /\ ~cfg.transplant /\ ~cfg.overwrite /\ DOMAIN dstFiles # {}) =>
        /\ pc # "error"
        /\ calls = <<>>

\* C10 as stated: in collapse mode every transfer targets a file directly
\* inside the destination directory passed to walk() and no directory is
\* created below it.
C10_Orig_CollapseIntoArgument ==
    (cfg.collapse /\ cfg.dstdir # None) =>
        /\ \A k \in 1..Len(execs) : Dirname(execs[k].dst) = cfg.dstdir
        /\ \A p \in MkdirsIn(calls) : ~IsUnder(p, cfg.dstdir)

\* C10 (amended): in collapse mode every transfer targets a file directly
\* inside one destination directory, which is the dstdir passed to walk() or,
\* when transplant_tree is also set, dstdir/basename(srcdir); the only
\* directory the walk creates is that directory, never one below it.
C10_CollapseSingleDir ==
    (cfg.collapse /\ cfg.dstdir # None /\ pc \in {"walking", "done", "error"}
        /\ err \notin {"AttributeError", "TypeError"}) =>
        /\ walkDst = (IF cfg.transplant THEN Join(cfg.dstdir, Basename(SrcRoot))
                      ELSE cfg.dstdir)
        /\ \A k \in 1..Len(execs) : Dirname(execs[k].dst) = walkDst
        /\ \A p \in MkdirsIn(calls) : p = walkDst
        /\ \A p \in dstDirs : ~IsUnder(p, walkDst)

C10_Witness ==
    /\ cfg.collapse
    /\ pc = "done"
    /\ \E k \in 1..Len(execs) :
         /\ execs[k].src = <<"S", "sub", "deep", "c.txt">>
         /\ execs[k].dst = Join(walkDst, "c.txt")
         /\ execs[k].dst \in DOMAIN dstFiles

\* C13: a walk with no destination and no copy method never ends in an error,
\* and when it has completed it has yielded, for every directory within the
\* depth bounds that passes directory matching, exactly one tuple holding the
\* directory's qualifying files.
C13_PureListingCompletes ==
    (pc # "idle" /\ ~cfg.has_copy /\ cfg.dstdir = None) =>
        /\ pc # "error"
        /\ err = "none"
        /\ pc = "done" =>
              \A d \in SrcDirs :
                 (cfg.mindepth <= DepthOf(d) /\ DepthOf(d) <= cfg.maxdepth
                     /\ PassesDirMatching(d)) =>
                    /\ Cardinality(YieldsOf(d)) = 1
                    /\ \A i \in YieldsOf(d) :
                         yields[i].fnames =
                             FNamesFiltered(cfg, d, Listing(d), AllSrcFiles)

\* the directories on the path of source file f, from the source root down to
\* the directory that holds f
DirsOnPath(f) == {SubSeq(f, 1, k) : k \in Len(SrcRoot)..(Len(f) - 1)}

DirNameMatches(d) == NameMatches(cfg.dcfg.rematch, cfg.dcfg.reexcl, Basename(d))

\* C14: with directory include and/or exclude patterns configured, every
\* transferred file has a directory on its path whose name matches the include
\* patterns and not the exclude patterns; and with only exclude patterns
\* configured no file whose directory is excluded is transferred or is in a
\* yielded file list.
C14_DirMatchGating ==
    (pc # "idle" /\ HasDirPatterns(cfg)) =>
        /\ \A k \in 1..Len(execs) :
             \E d \in DirsOnPath(execs[k].src) : DirNameMatches(d)
        /\ cfg.dcfg.rematch = <<>> =>
             /\ \A k \in 1..Len(execs) : DirNameMatches(Dirname(execs[k].src))
             /\ \A i \in 1..Len(yields) :
                  yields[i].fnames # <<>> => DirNameMatches(yields[i].dir)

\* exec call k of this run went as far as its transfer primitive
Invoked(k) == ~cfg.dryrun /\ (~execs[k].existed \/ cfg.overwrite)

----------------------------------------------------------------------------
(* Sync mode *)

\* the path below the destination root that mirrors source path p
Mirror(p) == DstRoot \o SubSeq(p, Len(SrcRoot) + 1, Len(p))

SyncMode ==
    /\ pc # "idle"
    /\ cfg.has_copy /\ cfg.dstdir # None
    /\ ~cfg.collapse /\ ~cfg.transplant
    /\ cfg.fcfg.resub = <<>> /\ cfg.dcfg.resub = <<>>

\* C21: in a sync-mode walk of S into D, whether or not D exists beforehand,
\* the walk is not ended by an error of its own, every transfer of a file at
\* S/p targets D/p, every directory created is D or the mirror of a source
\* subdirectory within the depth bound, and when the walk has completed every
\* qualifying file of every directory within the depth bounds that passes
\* directory matching has had its transfer call.
C21_SyncMirroring ==
    SyncMode =>
        /\ err \in {"none", "TransferError"}
        /\ \A k \in 1..Len(execs) : execs[k].dst = Mirror(execs[k].src)
        /\ \A p \in MkdirsIn(calls) :
             \E d \in SrcDirs : DepthOf(d) <= cfg.maxdepth /\ p = Mirror(d)
        /\ (pc = "done" /\ run = 1) =>
             \A d \in SrcDirs :
                (cfg.mindepth <= DepthOf(d) /\ DepthOf(d) <= cfg.maxdepth
                    /\ PassesDirMatching(d)) =>
                   \A f \in QualifyingFiles(d) : ExecsOf(f) # {}

----------------------------------------------------------------------------
(* Order of the traversal *)

\* position of the entry called name in the listing of directory d
ListingPos(d, name) == CHOOSE i \in 1..Len(Listing(d)) : Listing(d)[i].name = name

\* the longest common prefix of two paths
CommonDir(a, b) ==
    LET ks == {k \in 0..Len(a) : k <= Len(b) /\ SubSeq(a, 1, k) = SubSeq(b, 1, k)}
    IN  SubSeq(a, 1, CHOOSE k \in ks : \A j \in ks : j <= k)

\* directory a lies in a subtree that is listed before the subtree of b
SubtreeBefore(a, b) ==
    LET c == CommonDir(a, b)
    IN  ListingPos(c, a[Len(c) + 1]) < ListingPos(c, b[Len(c) + 1])

Unrelated(a, b) == a # b /\ ~IsUnder(a, b) /\ ~IsUnder(b, a)

\* C23: a directory is yielded before every directory below it; of two
\* yielded directories neither of which is below the other, the one whose
\* subtree is listed first under their common ancestor is yielded first, so
\* a subtree is finished before its next sibling starts; and the exec call of
\* a file is issued before the yield of the file's directory and before every
\* exec call for a file of a directory below it.
C23_TraversalOrder ==
    pc # "idle" =>
        /\ \A i, j \in 1..Len(yields) :
             /\ IsUnder(yields[j].dir, yields[i].dir) => i < j
             /\ (Unrelated(yields[i].dir, yields[j].dir)
                    /\ SubtreeBefore(yields[i].dir, yields[j].dir)) => i < j
        /\ \A k \in 1..Len(execs) :
             /\ \A i \in YieldsOf(Dirname(execs[k].src)) :
                  execs[k].nyields < i /\ k <= yields[i].nexecs
             /\ \A l \in 1..Len(execs) :
                  IsUnder(Dirname(execs[l].src), Dirname(execs[k].src)) => k < l

\* a completed walk that yielded the root, then sub and deep, then other, and
\* transferred files of the root, of sub and of deep
C23_Witness ==
    /\ pc = "done"
    /\ Len(yields) = 4
    /\ yields[1].dir = <<"S">> /\ yields[2].dir = <<"S", "sub">>
    /\ yields[3].dir = <<"S", "sub", "deep">> /\ yields[4].dir = <<"S", "other">>
    /\ \E k, l, m \in 1..Len(execs) :
         /\ Dirname(execs[k].src) = <<"S">>
         /\ Dirname(execs[l].src) = <<"S", "sub">>
         /\ Dirname(execs[m].src) = <<"S", "sub", "deep">>

----------------------------------------------------------------------------
(* Creation of destination directories *)

\* the destination directory with which _walk reaches source directory d
RECURSIVE DstdirAt(_)
DstdirAt(d) ==
    IF d = SrcRoot THEN walkDst
    ELSE DstdirNext(cfg, DstdirAt(Dirname(d)), Basename(d))

\* source directories whose _walk call is past its directory creation steps
Visited ==
    {stack[i].srcdir : i \in {j \in 1..Len(stack) : stack[j].phase # "enter"}}
    \cup (IF pc = "done" THEN {d \in SrcDirs : DepthOf(d) <= cfg.maxdepth} ELSE {})

----------------------------------------------------------------------------
(* Depth bound of directory matching *)

\* distance from d up to the nearest directory, d included and counted as 1,
\* whose name passes the directory patterns; 0 when there is none
NearestMatchDistance(d) ==
    LET ks == {k \in Len(SrcRoot)..Len(d) : DirNameMatches(SubSeq(d, 1, k))}
    IN  IF ks = {} THEN 0
        ELSE Len(d) + 1 - (CHOOSE k \in ks : \A j \in ks : j <= k)

\* the files of d are eligible under dmatch_maxdepth
WithinMatchBound(d) ==
    /\ NearestMatchDistance(d) # 0
    /\ cfg.dcfg.maxd # NoDepth => NearestMatchDistance(d) <= cfg.dcfg.maxd

\* C25: with directory include patterns and a copy method, a file is
\* transferred or listed only from a directory whose nearest matching
\* ancestor-or-self exists and lies within dmatch_maxdepth of it, and a
\* completed first walk has listed and transferred every qualifying file of
\* every such directory between mindepth and maxdepth.
C25_DmatchDepthBound ==
    (pc \in {"walking", "done"} /\ cfg.has_copy /\ cfg.dstdir # None
                                /\ cfg.dcfg.rematch # <<>>) =>
        /\ \A i \in 1..Len(execs) : WithinMatchBound(Dirname(execs[i].src))
        /\ \A i \in 1..Len(yields) :
              yields[i].fnames # <<>> => WithinMatchBound(yields[i].dir)
        /\ (pc = "done" /\ run = 1) =>
              \A d \in SrcDirs :
                 (/\ WithinMatchBound(d)
                  /\ cfg.mindepth <= DepthOf(d) /\ DepthOf(d) <= cfg.maxdepth) =>
                    \A f \in QualifyingFiles(d) :
                       /\ \E i \in YieldsOf(d) :
                             \E k \in 1..Len(yields[i].fnames) :
                                yields[i].fnames[k] = Basename(f)
                       /\ ExecsOf(f) # {}

\* a completed walk with the source root matching and a bound of 2: the
\* files of sub were transferred, deep was visited and its file was not
C25_Witness ==
    /\ pc = "done"
    /\ cfg.has_copy /\ cfg.dstdir # None
    /\ cfg.dcfg.rematch = <<{"S"}>> /\ cfg.dcfg.maxd = 2
    /\ ExecsOf(<<"S", "sub", "a.txt">>) # {}
    /\ YieldsOf(<<"S", "sub", "deep">>) # {}
    /\ ExecsOf(<<"S", "sub", "deep", "c.txt">>) = {}

----------------------------------------------------------------------------
(* CopyMethod.exec called on its own *)

XSrcFiles == {<<"S", "a.txt">>, <<"S", "b.txt">>}
XDstFiles == {<<"D", "a.txt">>, <<"D", "b.txt">>}

CopyMethods ==
    [kind : Kinds, overwrite : BOOLEAN, dryrun : BOOLEAN,
     verbose : BOOLEAN, debug : BOOLEAN]

\* CopyMethod.set_options: an argument left at None keeps the option
SetOption(old, arg) == IF arg = "none" THEN old ELSE arg = "true"

XSetOptions ==
    /\ bpc = "idle" /\ pc = "idle"
    /\ xCount < MaxCalls
    /\ \E o, d \in {"none", "true", "false"} :
         /\ xcm' = [xcm EXCEPT !.overwrite = SetOption(@, o),
                               !.dryrun = SetOption(@, d)]
         /\ xcm' # xcm
    /\ UNCHANGED <<xSrcs, xFiles, xPrims, xLast, xCount>>
    /\ UNCHANGED <<walkVars, bundleVars, mainVars, submitVars, readVars, performVars, constructVars, iterVars, handoffVars>>

XExec ==
    /\ bpc = "idle" /\ pc = "idle"
    /\ xCount < MaxCalls
    /\ \E srcfile \in xSrcs, dstfile \in XDstFiles, fail \in BOOLEAN :
         LET r == Exec(xcm, srcfile, dstfile, xSrcs, xFiles, fail)
         IN  /\ xFiles' = r.files
             /\ xSrcs' = r.srcs
             /\ xPrims' = xPrims \o r.prims
             /\ xCount' = xCount + 1
             /\ xLast' = [n |-> xCount + 1, src |-> srcfile, dst |-> dstfile,
                          cm |-> xcm, existed |-> r.existed, prims |-> r.prims,
                          printed |-> ExecPrinted(xcm, srcfile, dstfile, xFiles),
                          failed |-> r.failed,
                          filesBefore |-> xFiles, srcsBefore |-> xSrcs]
    /\ UNCHANGED xcm
    /\ UNCHANGED <<walkVars, bundleVars, mainVars, submitVars, readVars, performVars, constructVars, iterVars, handoffVars>>

InitExec ==
    /\ xcm \in CopyMethods
    /\ xSrcs = XSrcFiles
    /\ \E present \in SUBSET XDstFiles : xFiles = [p \in present |-> <<"old">>]
    /\ xPrims = <<>>
    /\ xLast = [n |-> 0]
    /\ xCount = 0
    /\ WalkIdle
    /\ BundleIdle
    /\ MainIdle
    /\ SubmitIdle
    /\ ReadIdle
    /\ PerformIdle
    /\ ConstructIdle
    /\ IterIdle
    /\ HandoffIdle

NextExec ==
    \/ XSetOptions
    \/ XExec

SpecExec == InitExec /\ [][NextExec]_vars

\* C8: an exec call that finds its destination file existing while overwrite
\* is off performs no primitive call, raises nothing and leaves the source
\* files and the destination files as they were, for every strategy kind and
\* every dryrun/verbose/debug setting.
C8_SkipWithoutOverwrite ==
    (xLast.n > 0 /\ xLast.existed /\ ~xLast.cm.overwrite) =>
        /\ xLast.prims = <<>>
        /\ ~xLast.failed
        /\ xFiles = xLast.filesBefore
        /\ xSrcs = xLast.srcsBefore

C8_Witness ==
    /\ xLast.n > 0 /\ xLast.existed /\ ~xLast.cm.overwrite
    /\ xLast.cm.kind = "move" /\ ~xLast.cm.dryrun /\ xLast.cm.debug
    /\ xLast.dst \in DOMAIN xFiles /\ xLast.src \in xSrcs

\* C9: an exec call that finds its destination existing with overwrite on and
\* dryrun off removes the destination first and then invokes the transfer
\* exactly once; no exec call removes anything when dryrun is on or the
\* destination did not exist.
C9_OverwriteOrdering ==
    xLast.n > 0 =>
        /\ (xLast.existed /\ xLast.cm.overwrite /\ ~xLast.cm.dryrun) =>
               xLast.prims = <<RemoveCall(xLast.dst),
                               TransferCall(xLast.cm, xLast.src, xLast.dst)>>
        /\ (xLast.cm.dryrun \/ ~xLast.existed) =>
               \A i \in 1..Len(xLast.prims) : xLast.prims[i].op # "remove"

C9_Witness ==
    /\ xLast.n > 0 /\ xLast.existed /\ xLast.cm.overwrite /\ ~xLast.cm.dryrun
    /\ ~xLast.failed
    /\ Len(xLast.prims) = 2
    /\ xFiles[xLast.dst] = xLast.src

----------------------------------------------------------------------------
(* A failed overwrite *)

\* C28: an exec call that finds its destination existing, with overwrite on
\* and dryrun off, and whose transfer primitive raises, ends with the
\* exception raised, the destination file absent, every other destination
\* file as before and the source files as before.
C28_FailedOverwriteNotAtomic ==
    (/\ xLast.n > 0
     /\ xLast.existed /\ xLast.cm.overwrite /\ ~xLast.cm.dryrun
     /\ xLast.failed) =>
        /\ xLast.dst \in DOMAIN xLast.filesBefore
        /\ xLast.dst \notin DOMAIN xFiles
        /\ xFiles = RemoveFile(xLast.filesBefore, xLast.dst)
        /\ xSrcs = xLast.srcsBefore
        /\ xLast.src \in xSrcs

\* a move over an existing file whose primitive raised
C28_Witness ==
    /\ xLast.n > 0
    /\ xLast.existed /\ xLast.cm.overwrite /\ ~xLast.cm.dryrun
    /\ xLast.failed
    /\ xLast.cm.kind = "move"
    /\ xLast.dst \notin DOMAIN xFiles

----------------------------------------------------------------------------
(* Text: a string is a sequence of one-character strings *)

TaskDelim == ","      \* task_delim / args_delim default

Max(a, b) == IF a >= b THEN a ELSE b
Min(a, b) == IF a <= b THEN a ELSE b

\* task_delim.join(fields)
RECURSIVE JoinFields(_, _)
JoinFields(fields, delim) ==
    IF Len(fields) = 0 THEN <<>>
    ELSE IF Len(fields) = 1 THEN fields[1]
    ELSE fields[1] \o <<delim>> \o JoinFields(Tail(fields), delim)

\* line.split(delim)
RECURSIVE Split(_, _)
Split(str, delim) ==
    IF str = <<>> THEN << <<>> >>
    ELSE LET rest == Split(Tail(str), delim)
         IN  IF Head(str) = delim THEN << <<>> >> \o rest
             ELSE << <<Head(str)>> \o rest[1] >> \o Tail(rest)

\* str.strip()
IsSpace(ch) == ch = " "
RECURSIVE StripLeft(_)
StripLeft(str) ==
    IF str # <<>> /\ IsSpace(Head(str)) THEN StripLeft(Tail(str)) ELSE str
RECURSIVE StripRight(_)
StripRight(str) ==
    IF str # <<>> /\ IsSpace(str[Len(str)])
       THEN StripRight(SubSeq(str, 1, Len(str) - 1)) ELSE str
Strip(str) == StripLeft(StripRight(str))

\* str(n) for n >= 0
Digit(n) == SubSeq(<<"0", "1", "2", "3", "4", "5", "6", "7", "8", "9">>, n + 1, n + 1)
RECURSIVE Str(_)
Str(n) == IF n < 10 THEN Digit(n) ELSE Str(n \div 10) \o Digit(n % 10)

\* get_index_fmtstr(num_items): the width of '{:0>w}'
MinDigits == 3
IndexWidth(num_items) == Max(MinDigits, Len(Str(num_items)))

\* '{:0>w}'.format(n)
RECURSIVE PadLeft(_, _)
PadLeft(str, width) == IF Len(str) >= width THEN str ELSE PadLeft(<<"0">> \o str, width)
FormatIndex(n, width) == PadLeft(Str(n), width)

----------------------------------------------------------------------------
(* write_task_bundles *)

PathA == <<"a">>
PathB == <<"b", "/", "c">>
PathComma == <<"a", ",", "b">>
PathSpace == <<"d", " ">>

\* (source, destination) tasks the task list is drawn from
TaskPool == { <<PathA, PathB>>, <<PathB, PathA>>, <<PathComma, PathA>>, <<PathSpace, PathB>> }

RECURSIVE SeqsUpTo(_, _)
SeqsUpTo(S, n) ==
    IF n = 0 THEN {<<>>}
    ELSE LET shorter == SeqsUpTo(S, n - 1)
         IN  shorter \cup {Append(q, x) : q \in {r \in shorter : Len(r) = n - 1}, x \in S}

\* int(math.ceil(len(task_list) / float(tasks_per_bundle)))
CeilDiv(n, b) == (n + b - 1) \div b

\* range(0, len(task_list), tasks_per_bundle)
BundleStarts(n, b) == [k \in 1..CeilDiv(n, b) |-> (k - 1) * b]

\* task_list[tasknum:tasknum+tasks_per_bundle]
TaskSliceOverlapping(tasks, tasknum, b) ==
    SubSeq(tasks, Max(1, tasknum), Min(tasknum + b, Len(tasks)))
TaskSlice(tasks, tasknum, b) ==
    SubSeq(tasks, tasknum + 1, Min(tasknum + b, Len(tasks)))

\* one written line (without its newline): np.savetxt with fmt '%s' and the
\* pure-Python branch produce the same text
TaskLine(task, delim) == JoinFields(task, delim)

BundleLines(bundle, delim) == [i \in 1..Len(bundle) |-> TaskLine(bundle[i], delim)]

\* '{}_{}.txt'.format(bundle_prefix, jobnum_fmt.format(jobnum))
BundleName(jobnum, jobnum_total) ==
    <<"prefix_timestamp">> \o <<"_">> \o FormatIndex(jobnum, IndexWidth(jobnum_total))
        \o <<".txt">>

WriteTaskBundles ==
    /\ bpc = "init"
    /\ LET n == Len(taskList)
           starts == BundleStarts(n, perBundle)
           jobnum_total == CeilDiv(n, perBundle)
       IN  /\ bundleFiles' = [k \in 1..Len(starts) |->
                  BundleLines(TaskSlice(taskList, starts[k], perBundle), TaskDelim)]
           /\ bundleNames' = [k \in 1..Len(starts) |-> BundleName(k, jobnum_total)]
    /\ bpc' = "written"
    /\ UNCHANGED <<taskList, perBundle, haveNumpy, readBack, readIdx>>
    /\ UNCHANGED <<walkVars, execVars, mainVars, submitVars, readVars, performVars, constructVars, iterVars, handoffVars>>

----------------------------------------------------------------------------
(* read_task_bundle with its default arguments and the same delimiter *)

RECURSIVE NonBlank(_)
NonBlank(lines) ==
    IF lines = <<>> THEN <<>>
    ELSE (IF Strip(Head(lines)) # <<>> THEN <<Head(lines)>> ELSE <<>>) \o NonBlank(Tail(lines))

SameWidth(rows) == \A i \in 1..Len(rows) : Len(rows[i]) = Len(rows[1])

\* allow_1d_task_list: a one-column row becomes its only item
Flatten1d(rows) == [i \in 1..Len(rows) |-> IF Len(rows[i]) = 1 THEN rows[i][1] ELSE rows[i]]

\* the pure-Python branch
ReadPython(lines, delim) ==
    LET kept == NonBlank(lines)
        rows == [i \in 1..Len(kept) |->
                    LET parts == Split(kept[i], delim)
                    IN  [j \in 1..Len(parts) |-> Strip(parts[j])]]
    IN  IF Len(rows) > 0 /\ ~SameWidth(rows)
           THEN [error |-> "DimensionError", tasks |-> <<>>]
           ELSE [error |-> "none", tasks |-> Flatten1d(rows)]

\* the np.loadtxt branch: rows are split on the delimiter, a row of another
\* width than the first is "Wrong number of columns"
ReadNumpy(lines, delim) ==
    LET kept == NonBlank(lines)
        rows == [i \in 1..Len(kept) |-> Split(kept[i], delim)]
    IN  IF Len(rows) > 0 /\ ~SameWidth(rows)
           THEN [error |-> "DimensionError", tasks |-> <<>>]
           ELSE [error |-> "none", tasks |-> Flatten1d(rows)]

ReadTaskBundle(lines, delim, numpy) ==
    IF numpy THEN ReadNumpy(lines, delim) ELSE ReadPython(lines, delim)

\* the next bundle file of the returned list is read back and appended
ReadNextBundle ==
    /\ bpc = "written"
    /\ readIdx < Len(bundleFiles)
    /\ LET r == ReadTaskBundle(bundleFiles[readIdx + 1], TaskDelim, haveNumpy)
       IN  IF r.error # "none"
              THEN /\ bpc' = "error"
                   /\ UNCHANGED <<readBack, readIdx>>
              ELSE /\ readBack' = readBack \o r.tasks
                   /\ readIdx' = readIdx + 1
                   /\ UNCHANGED bpc
    /\ UNCHANGED <<taskList, perBundle, haveNumpy, bundleFiles, bundleNames>>
    /\ UNCHANGED <<walkVars, execVars, mainVars, submitVars, readVars, performVars, constructVars, iterVars, handoffVars>>

InitBundle ==
    /\ taskList \in SeqsUpTo(TaskPool, MaxTasks)
    /\ perBundle \in 1..MaxPerBundle
    /\ haveNumpy \in BOOLEAN
    /\ bpc = "init"
    /\ bundleFiles = <<>>
    /\ bundleNames = <<>>
    /\ readBack = <<>>
    /\ readIdx = 0
    /\ WalkIdle
    /\ ExecIdle
    /\ MainIdle
    /\ SubmitIdle
    /\ ReadIdle
    /\ PerformIdle
    /\ ConstructIdle
    /\ IterIdle
    /\ HandoffIdle

NextBundle ==
    \/ WriteTaskBundles
    \/ ReadNextBundle

SpecBundle == InitBundle /\ [][NextBundle]_vars

AllRead == bpc = "written" /\ readIdx = Len(bundleFiles)

\* C5: reading back every written bundle file with the same delimiter never
\* fails, and the concatenation of what was read, in file order, is the
\* original task list.
C5_RoundTrip ==
    /\ bpc # "error"
    /\ AllRead => readBack = taskList

\* C6: for N >= 1 tasks exactly ceil(N/B) bundle files are written; every one
\* but the last holds B tasks, the last holds N - B*(ceil(N/B)-1), which is
\* within 1..B, and line j of bundle k is task (k-1)*B + j of the list.
C6_ContiguousChunks ==
    (bpc # "init" /\ Len(taskList) >= 1) =>
        LET n == Len(taskList)
            cnt == Len(bundleFiles)
        IN  /\ cnt * perBundle >= n /\ (cnt - 1) * perBundle < n
            /\ Len(bundleNames) = cnt
            /\ \A k \in 1..(cnt - 1) : Len(bundleFiles[k]) = perBundle
            /\ Len(bundleFiles[cnt]) = n - perBundle * (cnt - 1)
            /\ Len(bundleFiles[cnt]) \in 1..perBundle
            /\ \A k \in 1..cnt : \A j \in 1..Len(bundleFiles[k]) :
                 bundleFiles[k][j] = TaskLine(taskList[(k - 1) * perBundle + j], TaskDelim)

C6_Witness ==
    /\ bpc = "written"
    /\ Len(taskList) = 3 /\ perBundle = 2
    /\ Len(bundleFiles) = 2
    /\ Len(bundleFiles[1]) = 2 /\ Len(bundleFiles[2]) = 1
    /\ bundleNames[2] = <<"prefix_timestamp", "_", "0", "0", "2", ".txt">>

\* C7: write_task_bundles called with an empty task list writes exactly one
\* bundle file, which is empty, and returns exactly its path.
C7_EmptyListOneBundle ==
    (bpc # "init" /\ taskList = <<>>) =>
        /\ Len(bundleFiles) = 1
        /\ Len(bundleNames) = 1
        /\ bundleFiles[1] = <<>>

----------------------------------------------------------------------------
(* file_transfer.py: adjust_dst_path and the task loops of main that call it *)
(* A path argument is a record: its names and whether it is written with a   *)
(* trailing path separator.                                                  *)

ARGMOD_SYNC_MODE_NULL == 0
ARGMOD_SYNC_MODE_SYNC_TREE == 1
ARGMOD_SYNC_MODE_TRANSPLANT_TREE == 2

PATH_TYPE_UNKNOWN == 0
PATH_TYPE_FILE == 1
PATH_TYPE_DIR == 2
PATH_TYPE_DNE == 3

PathArg(p, sep) == [path |-> p, sep |-> sep]
SrcArg(p, sep, isfile) == [path |-> p, sep |-> sep, isfile |-> isfile]

\* su.endswith_one_of_coll(path, PATH_SEPARATORS_LIST)
EndsWithSep(p) == p.sep

\* os.path.join(dst_path, name)
OsJoin(p, name) == [path |-> Join(p.path, name), sep |-> FALSE]

\* os.path.basename(src_path.rstrip(PATH_SEPARATORS_CAT))
StrippedBasename(src) == Basename(src.path)

\* "if not endswith_one_of_coll(dst_path, ...): dst_path = dst_path+os.path.sep"
WithSep(p) == IF EndsWithSep(p) THEN p ELSE [p EXCEPT !.sep = TRUE]

\* adjust_dst_path: the first branch is taken (destination is an existing directory)
DstIsDir(dst_path_type, fstype) ==
    dst_path_type = PATH_TYPE_DIR
        \/ (dst_path_type = PATH_TYPE_UNKNOWN /\ fstype = PATH_TYPE_DIR)

\* adjust_dst_path: the second branch is taken (destination is an existing file)
DstIsFile(dst_path_type, fstype) ==
    /\ ~DstIsDir(dst_path_type, fstype)
    /\ (dst_path_type = PATH_TYPE_FILE
           \/ (dst_path_type = PATH_TYPE_UNKNOWN /\ fstype = PATH_TYPE_FILE))

\* adjust_dst_path: sync_mode of a directory source, destination an existing directory
SyncModeExistingDir(src, sync_mode_global) ==
    IF sync_mode_global = ARGMOD_SYNC_MODE_NULL
       THEN (IF EndsWithSep(src) THEN ARGMOD_SYNC_MODE_SYNC_TREE
             ELSE ARGMOD_SYNC_MODE_TRANSPLANT_TREE)
       ELSE sync_mode_global

\* adjust_dst_path: sync_mode of a directory source, destination not yet existing
SyncModeNewDir(sync_mode_global, sync_mode_default) ==
    LET sync_mode == IF sync_mode_global # ARGMOD_SYNC_MODE_NULL
                        THEN sync_mode_global ELSE sync_mode_default
    IN  IF sync_mode = ARGMOD_SYNC_MODE_NULL THEN ARGMOD_SYNC_MODE_SYNC_TREE
        ELSE sync_mode

\* adjust_dst_path: the destination of a directory source under a sync mode
AdjustDirSyncOnly(src, dst_path, sync_mode) == WithSep(dst_path)
AdjustDir(src, dst_path, sync_mode) ==
    WithSep(IF sync_mode = ARGMOD_SYNC_MODE_TRANSPLANT_TREE
               THEN OsJoin(dst_path, StrippedBasename(src))
               ELSE dst_path)

\* adjust_dst_path(src_path, dst_path, dst_can_be_file, dst_path_type,
\* sync_mode_default) under SYNC_MODE_GLOBAL; fstype is what os.path.isdir and
\* os.path.isfile find at dst_path
AdjustDstPath(src, dst_path, dst_can_be_file, dst_path_type, sync_mode_default, sync_mode_global, fstype) ==
    IF DstIsDir(dst_path_type, fstype)
       THEN IF src.isfile
               THEN [error |-> "none", dst |-> OsJoin(dst_path, Basename(src.path))]
               ELSE [error |-> "none",
                     dst |-> AdjustDir(src, dst_path,
                                 SyncModeExistingDir(src, sync_mode_global))]
    ELSE IF DstIsFile(dst_path_type, fstype)
       THEN IF ~src.isfile
               THEN [error |-> "ScriptArgumentError", dst |-> dst_path]
               ELSE [error |-> "none", dst |-> dst_path]
    ELSE IF src.isfile
       THEN IF dst_can_be_file /\ ~EndsWithSep(dst_path)
               THEN [error |-> "none", dst |-> dst_path]
               ELSE [error |-> "none", dst |-> OsJoin(dst_path, Basename(src.path))]
    ELSE [error |-> "none",
          dst |-> AdjustDir(src, dst_path,
                      SyncModeNewDir(sync_mode_global, sync_mode_default))]

\* the source paths of one task: one path, or the expansion of a '*' pattern
MainSrcPool ==
    { SrcArg(<<"S">>, FALSE, FALSE), SrcArg(<<"S">>, TRUE, FALSE),
      SrcArg(<<"T">>, FALSE, FALSE),
      SrcArg(<<"F", "a.txt">>, FALSE, TRUE), SrcArg(<<"F", "b.txt">>, FALSE, TRUE) }

MainEnvRecords ==
    [ sync_mode_global : {ARGMOD_SYNC_MODE_NULL, ARGMOD_SYNC_MODE_SYNC_TREE,
                          ARGMOD_SYNC_MODE_TRANSPLANT_TREE},
      dst : {PathArg(DstRoot, FALSE), PathArg(DstRoot, TRUE)},
      dstkind : {PATH_TYPE_FILE, PATH_TYPE_DIR, PATH_TYPE_DNE},   \* what DstRoot is on disk
      glob : BOOLEAN,          \* the source path holds '*' and globbing is on
      typed : BOOLEAN,         \* tasklist_dst_dir is not None
      can_be_file : BOOLEAN,   \* arg_dst_can_be_file / tasklist_dst_can_be_file
      srcs : SeqsUpTo(MainSrcPool, MaxGlob) \ {<<>>} ]

MainEnvs ==
    {e \in MainEnvRecords :
        /\ ~e.glob => Len(e.srcs) = 1
        /\ e.can_be_file => (~e.glob /\ ~e.typed)}

\* main: dst_path_type, computed once from tasklist_dst_dir
MainDstPathType(e) == IF e.typed THEN e.dstkind ELSE PATH_TYPE_UNKNOWN

\* main: sync_mode_default handed to adjust_dst_path
MainSyncModeDefault(e) ==
    IF e.glob THEN ARGMOD_SYNC_MODE_TRANSPLANT_TREE ELSE ARGMOD_SYNC_MODE_NULL

\* what is on disk at a destination path: only DstRoot itself may exist
MainFsType(e, p) == IF p.path = DstRoot THEN e.dstkind ELSE PATH_TYPE_DNE

\* one iteration of the task loop: dst_path = adjust_dst_path(src_path, dst_path, ...)
MainAdjust ==
    /\ mpc = "run"
    /\ mIdx < Len(mEnv.srcs)
    /\ LET src == mEnv.srcs[mIdx + 1]
           fstype == MainFsType(mEnv, mDst)
           r == AdjustDstPath(src, mDst, mEnv.can_be_file, MainDstPathType(mEnv),
                              MainSyncModeDefault(mEnv), mEnv.sync_mode_global, fstype)
       IN  /\ mLast' = [n |-> mIdx + 1, src |-> src, dst_in |-> mDst,
                        dst_path_type |-> MainDstPathType(mEnv), fstype |-> fstype,
                        error |-> r.error, dst_out |-> r.dst]
           /\ IF r.error # "none"
                 THEN /\ mpc' = "error"
                      /\ UNCHANGED <<mDst, mIdx, mTasks>>
                 ELSE /\ mDst' = r.dst
                      /\ mIdx' = mIdx + 1
                      /\ mTasks' = Append(mTasks, <<src, r.dst>>)
                      /\ mpc' = IF mIdx + 1 = Len(mEnv.srcs) THEN "done" ELSE "run"
    /\ UNCHANGED mEnv
    /\ UNCHANGED <<walkVars, execVars, bundleVars, submitVars, readVars, performVars, constructVars, iterVars, handoffVars>>

InitMain ==
    /\ mEnv \in MainEnvs
    /\ mDst = mEnv.dst
    /\ mIdx = 0
    /\ mTasks = <<>>
    /\ mLast = [n |-> 0]
    /\ mpc = "run"
    /\ WalkIdle
    /\ ExecIdle
    /\ BundleIdle
    /\ SubmitIdle
    /\ ReadIdle
    /\ PerformIdle
    /\ ConstructIdle
    /\ IterIdle
    /\ HandoffIdle

NextMain == MainAdjust

SpecMain == InitMain /\ [][NextMain]_vars

----------------------------------------------------------------------------
(* Glob expansion *)

\* adjust_dst_path applied to the task's original destination
DstFromOriginal(e, src) ==
    AdjustDstPath(src, e.dst, e.can_be_file, MainDstPathType(e), MainSyncModeDefault(e),
                  e.sync_mode_global, MainFsType(e, e.dst))

\* C29: every task made from a source path that '*' expanded to has the
\* destination that adjust_dst_path gives for that source and the task's
\* original destination, whatever sources were expanded before it.
C29_GlobDestinationsIndependent ==
    (mpc # "idle" /\ mEnv.glob) =>
        /\ \A i \in 1..Len(mTasks) :
              mTasks[i][2] = DstFromOriginal(mEnv, mTasks[i][1]).dst
        /\ (mLast.n > 0 /\ mLast.error # "none") =>
              DstFromOriginal(mEnv, mLast.src).error = mLast.error

----------------------------------------------------------------------------
(* Transplant mode, requested of WalkObject.walk or of adjust_dst_path *)

InitTransplant ==
    \/ InitWalk /\ cfg.transplant
    \/ InitMain /\ mEnv.sync_mode_global = ARGMOD_SYNC_MODE_TRANSPLANT_TREE

NextTransplant ==
    \/ WalkStart
    \/ WalkEnter
    \/ WalkExec
    \/ WalkYield
    \/ WalkDescend
    \/ WalkReturn
    \/ WalkAgain
    \/ MainAdjust

SpecTransplant == InitTransplant /\ [][NextTransplant]_vars

\* the directory every file of a transplanting walk must land under
TransplantDir(d, srcname) == Join(d, srcname)

\* C11: with transplant requested, every transfer of a walk of S into D targets
\* a path under D/basename(S) and every destination file it puts in place is
\* under D/basename(S); and every adjust_dst_path call for a directory source
\* S and destination D that returns, returns D/basename(S), whether D is an
\* existing directory or does not exist yet.
C11_TransplantUnderBasename ==
    /\ (pc # "idle" /\ cfg.transplant /\ cfg.dstdir # None) =>
          /\ \A k \in 1..Len(execs) :
               IsUnder(execs[k].dst, TransplantDir(cfg.dstdir, Basename(SrcRoot)))
          /\ \A p \in DOMAIN dstFiles \ DOMAIN Dst0Files(cfg.dst0) :
               IsUnder(p, TransplantDir(cfg.dstdir, Basename(SrcRoot)))
    /\ (pc # "idle" /\ cfg.transplant /\ cfg.dstdir = None) => execs = <<>>
    /\ (mLast.n > 0 /\ ~mLast.src.isfile /\ mLast.error = "none"
           /\ mEnv.sync_mode_global = ARGMOD_SYNC_MODE_TRANSPLANT_TREE) =>
          /\ mLast.dst_out.path = TransplantDir(mLast.dst_in.path, Basename(mLast.src.path))
          /\ mLast.dst_out.path # mLast.dst_in.path

C11_Witness ==
    /\ pc = "done" /\ cfg.transplant /\ cfg.dstdir = DstRoot
    /\ \E k \in 1..Len(execs) :
         /\ execs[k].src = <<"S", "sub", "b.txt">>
         /\ execs[k].dst = <<"D", "S", "sub", "b.txt">>
         /\ execs[k].dst \in DOMAIN dstFiles

\* C12: with SYNC_MODE_GLOBAL null, every adjust_dst_path call for a directory
\* source that returns treats it as sync (destination path kept) if the source
\* is written with a trailing separator and as transplant (basename appended)
\* otherwise, for an existing destination directory and for a destination that
\* does not exist yet.
C12_DefaultTieBreak ==
    (mLast.n > 0 /\ ~mLast.src.isfile /\ mLast.error = "none"
        /\ mEnv.sync_mode_global = ARGMOD_SYNC_MODE_NULL) =>
        mLast.dst_out.path =
            (IF mLast.src.sep THEN mLast.dst_in.path
             ELSE Join(mLast.dst_in.path, Basename(mLast.src.path)))

----------------------------------------------------------------------------
(* ArgumentPasser.get_jobsubmit_cmd *)
(* A command is a record: the items handed to ' '.join, the conditional       *)
(* options read from the jobscript, and the jobscript path.  An item is an    *)
(* option with its value; the empty string is the item with the empty option. *)

SCHED_PBS == "pbs"
SCHED_SLURM == "slurm"
Schedulers == {SCHED_PBS, SCHED_SLURM}

NoValue == -1       \* None given for a numeric argument

\* values of --email (ARGTYPE_BOOL_PLUS): False when not given, True when given
\* without a value, otherwise the address
EmailValues == {"False", "True", "user@host"}
Truthy(email) == email # "False"
IsStr(email) == email \notin {"False", "True"}

Item(opt, val) == [opt |-> opt, val |-> val]
Blank == Item("", <<>>)
NoneItem == Item("None", <<>>)

\* total_sec from time_hr (time_min and time_sec are never passed)
TotalSec(time_hr) == IF time_hr # NoValue THEN time_hr * 3600 ELSE 0

\* time_hms: divmod(total_sec, 60), divmod(m, 60), or None
TimeHms(total_sec) ==
    IF total_sec = 0 THEN None
    ELSE <<(total_sec \div 60) \div 60, (total_sec \div 60) % 60, total_sec % 60>>

\* cmd_envvars from a list: p0="..",p1="..",...
CmdEnvvars(envvars) ==
    IF envvars = None THEN None
    ELSE [i \in 1..Len(envvars) |-> [var |-> i - 1, val |-> envvars[i]]]

\* the list joined for SCHED_PBS; the last two source lines are one list item,
\* "-v ..." if cmd_envvars is not None else ("-m ae" if email else '')
PbsItems(jobname, time_hms, memory_gb, cmd_envvars, email) ==
    << Item("qsub", <<>>),
       IF jobname # None THEN Item("-N", jobname) ELSE Blank,
       IF time_hms # None /\ memory_gb # NoValue
          THEN Item("-l", [walltime |-> time_hms, mem |-> memory_gb])
          ELSE Blank,
       IF cmd_envvars # None THEN Item("-v", cmd_envvars)
       ELSE IF Truthy(email) THEN Item("-m", <<"ae">>)
       ELSE Blank >>

\* the list joined for SCHED_SLURM; "-v ..." and "--mail-type FAIL,END" are one
\* list item as for PBS, and the last item is None unless email is a str
SlurmItems(jobname, time_hms, memory_gb, cmd_envvars, email) ==
    << Item("sbatch", <<>>),
       IF jobname # None THEN Item("--job-name", jobname) ELSE Blank,
       IF time_hms # None THEN Item("--time", time_hms) ELSE Blank,
       IF memory_gb # NoValue THEN Item("--mem", memory_gb) ELSE Blank,
       IF cmd_envvars # None THEN Item("-v", cmd_envvars)
       ELSE IF Truthy(email) THEN Item("--mail-type", <<"FAIL,END">>)
       ELSE Blank,
       IF IsStr(email) THEN Item("--mail-user", email) ELSE NoneItem >>

SchedItems(scheduler, jobname, time_hms, memory_gb, cmd_envvars, email) ==
    IF scheduler = SCHED_PBS
       THEN PbsItems(jobname, time_hms, memory_gb, cmd_envvars, email)
       ELSE SlurmItems(jobname, time_hms, memory_gb, cmd_envvars, email)

\* ' '.join(items) raises TypeError on an item that is None
JoinRaises(items) == \E i \in 1..Len(items) : items[i].opt = NoneItem.opt

\* jobscript_condoptkey
CondoptKey(scheduler) ==
    IF scheduler = SCHED_PBS THEN "#CONDOPT_PBS" ELSE "#CONDOPT_SBATCH"

\* text.split(' KW ') on a text given as its space-separated tokens: a KW token
\* separates only with a token before it that is not itself a separator, and
\* a token after it
RECURSIVE SplitKw(_, _, _)
SplitKw(toks, kw, cur) ==
    IF toks = <<>> THEN <<cur>>
    ELSE IF Head(toks) = kw /\ cur # <<>> /\ Len(toks) > 1
       THEN <<cur>> \o SplitKw(Tail(toks), kw, <<>>)
    ELSE SplitKw(Tail(toks), kw, Append(cur, Head(toks)))

\* eval(condition): the value, or the exception Python raises.  Two or more
\* of the tokens used here side by side never parse.
EvalCond(toks) ==
    IF Len(toks) # 1 THEN "SyntaxError"
    ELSE IF toks[1] \in {"True", "False"} THEN toks[1]
    ELSE IF toks[1] \in {"(", "--x=1", "--y=2"} THEN "SyntaxError"
    ELSE "NameError"

\* the body of the loop over jobscript lines for one line that starts with
\* the key: what it adds to jobscript_condopts or which exception it raises
CondoptLine(toks) ==
    LET else_parts == SplitKw(toks, "ELSE", <<>>)
        has_else == Len(else_parts) = 2
        cond_remain == IF has_else THEN else_parts[1] ELSE toks
        if_parts == SplitKw(cond_remain, "IF", <<>>)
        has_if == Len(if_parts) = 2
        cond == IF has_if THEN EvalCond(if_parts[2]) ELSE "none"
    IN  IF has_if
           THEN IF cond = "SyntaxError"
                   THEN [error |-> "InvalidArgumentError", add |-> <<>>]
                ELSE IF cond = "NameError"
                   THEN [error |-> "NameError", add |-> <<>>]
                ELSE IF cond = "True"
                   THEN [error |-> "none", add |-> <<if_parts[1]>>]
                ELSE IF has_else
                   THEN [error |-> "none", add |-> <<else_parts[2]>>]
                ELSE [error |-> "none", add |-> <<>>]
        ELSE IF has_else
           THEN [error |-> "InvalidArgumentError", add |-> <<>>]
        ELSE IF cond_remain # <<>> /\ Head(cond_remain) \in {"import", "from"}
           THEN [error |-> "none", add |-> <<>>]
        ELSE [error |-> "none", add |-> <<cond_remain>>]

\* the loop over the jobscript lines from line number k on
RECURSIVE Condopts(_, _, _, _)
Condopts(jobscript, key, k, acc) ==
    IF k > Len(jobscript.lines) THEN [error |-> "none", condopts |-> acc]
    ELSE IF jobscript.lines[k].key # key THEN Condopts(jobscript, key, k + 1, acc)
    ELSE LET r == CondoptLine(jobscript.lines[k].toks)
         IN  IF r.error = "InvalidArgumentError"
                THEN [error |-> r.error, file |-> jobscript.name, line |-> k]
             ELSE IF r.error # "none"
                THEN [error |-> r.error]
             ELSE Condopts(jobscript, key, k + 1, acc \o r.add)

\* get_jobsubmit_cmd(scheduler, jobscript, jobname, time_hr, memory_gb, email, envvars)
GetJobsubmitCmd(scheduler, jobscript, jobname, time_hr, memory_gb, email, envvars) ==
    LET items == SchedItems(scheduler, jobname, TimeHms(TotalSec(time_hr)), memory_gb,
                            CmdEnvvars(envvars), email)
        c == Condopts(jobscript, CondoptKey(scheduler), 1, <<>>)
    IN  IF JoinRaises(items) THEN [error |-> "TypeError"]
        ELSE IF c.error # "none" THEN c
        ELSE [error |-> "none",
              cmd |-> [items |-> items, condopts |-> c.condopts,
                       jobscript |-> jobscript.name]]

----------------------------------------------------------------------------
(* Jobscripts *)

CondLine(key, toks) == [key |-> key, toks |-> toks]
PlainLine == CondLine("", <<"#!/bin/bash">>)

\* conditions: true, false, a syntax error and an undefined name
CondPool == {"True", "False", "(", "undefined"}

\* the texts that follow the key on a line
CondTexts ==
    { <<"--x=1">>, <<"import", "os">>,
      <<"--x=1", "ELSE", "--y=2">>,
      <<"ELSE", "--y=2">>,
      <<"--x=1", "IF", "True", "IF", "True">>,
      <<"--x=1", "ELSE", "--y=2", "ELSE", "--y=2">>,
      <<"--x=1", "IF", "True", "ELSE", "--y=2", "ELSE", "--y=2">> }
    \cup {<<"--x=1", "IF", c>> : c \in CondPool}
    \cup {<<"--x=1", "IF", c, "ELSE", "--y=2">> : c \in CondPool}

\* the lines of the jobscript of a scheduler: marked lines, a line marked for
\* the other scheduler and an unmarked line
ScriptLines(scheduler) ==
    {CondLine(CondoptKey(scheduler), t) : t \in CondTexts}
    \cup {CondLine(CondoptKey(CHOOSE s \in Schedulers : s # scheduler), <<"--z=3">>),
          PlainLine}

Jobscript(lines) == [name |-> "head.sh", lines |-> lines]

\* whether a text has the form <options> [IF <condition> [ELSE <options>]]
\* with a condition that evaluates
CountTok(toks, kw) == Cardinality({i \in 1..Len(toks) : toks[i] = kw})
PosTok(toks, kw) == CHOOSE i \in 1..Len(toks) : toks[i] = kw
WellFormed(toks) ==
    /\ CountTok(toks, "IF") <= 1
    /\ CountTok(toks, "ELSE") <= 1
    /\ CountTok(toks, "ELSE") = 1 => CountTok(toks, "IF") = 1
    /\ CountTok(toks, "IF") = 1 =>
         LET i == PosTok(toks, "IF")
             e == IF CountTok(toks, "ELSE") = 1 THEN PosTok(toks, "ELSE")
                  ELSE Len(toks) + 1
         IN  /\ 1 < i /\ i + 1 < e /\ e # Len(toks)
             /\ EvalCond(SubSeq(toks, i + 1, e - 1)) \in {"True", "False"}

\* line numbers of the lines marked for the scheduler that are malformed
MalformedLines(jobscript, scheduler) ==
    {k \in 1..Len(jobscript.lines) :
        /\ jobscript.lines[k].key = CondoptKey(scheduler)
        /\ ~WellFormed(jobscript.lines[k].toks)}

----------------------------------------------------------------------------
(* get_jobsubmit_cmd called on its own *)

JobCmdInputs ==
    [ scheduler : Schedulers,
      email : EmailValues,
      time_hr : {NoValue, 1},
      memory_gb : {NoValue, 5},
      has_envvars : BOOLEAN,
      lines : UNION {[1..n -> ScriptLines(SCHED_PBS) \cup ScriptLines(SCHED_SLURM)] :
                         n \in 0..MaxCondLines} ]

JobCmdCall ==
    /\ jOut.n = 0
    /\ jIn.n = 1
    /\ jOut' = [n |-> 1,
                r |-> GetJobsubmitCmd(jIn.scheduler, Jobscript(jIn.lines), <<"J", "0", "0", "1">>,
                                      jIn.time_hr, jIn.memory_gb, jIn.email,
                                      IF jIn.has_envvars THEN <<"head.sh", "J">> ELSE None)]
    /\ UNCHANGED <<jIn, sEnv, sJobNum, sCmds, sCalls, sErr, spc>>
    /\ UNCHANGED <<walkVars, execVars, bundleVars, mainVars, readVars, performVars, constructVars, iterVars, handoffVars>>

InitJobCmd ==
    /\ \E i \in JobCmdInputs :
         /\ \A k \in 1..Len(i.lines) :
              i.lines[k] \in ScriptLines(i.scheduler)
         /\ jIn = [n |-> 1, scheduler |-> i.scheduler, email |-> i.email,
                   time_hr |-> i.time_hr, memory_gb |-> i.memory_gb,
                   has_envvars |-> i.has_envvars, lines |-> i.lines]
    /\ jOut = [n |-> 0]
    /\ sEnv = [n |-> 0]
    /\ sJobNum = 0
    /\ sCmds = <<>>
    /\ sCalls = <<>>
    /\ sErr = "none"
    /\ spc = "idle"
    /\ WalkIdle
    /\ ExecIdle
    /\ BundleIdle
    /\ MainIdle
    /\ ReadIdle
    /\ PerformIdle
    /\ ConstructIdle
    /\ IterIdle
    /\ HandoffIdle

NextJobCmd == JobCmdCall

SpecJobCmd == InitJobCmd /\ [][NextJobCmd]_vars

\* C18: a get_jobsubmit_cmd call whose base command is built and whose
\* jobscript has a line marked for the scheduler that is not of the form
\* <options> [IF <condition> [ELSE <options>]] with a condition that evaluates
\* raises InvalidArgumentError naming the jobscript and the first such line,
\* and returns no command.
C18_MalformedCondoptFatal ==
    (jOut.n = 1 /\ jOut.r.error # "TypeError"
        /\ MalformedLines(Jobscript(jIn.lines), jIn.scheduler) # {}) =>
        /\ jOut.r.error = "InvalidArgumentError"
        /\ jOut.r.file = "head.sh"
        /\ \A k \in MalformedLines(Jobscript(jIn.lines), jIn.scheduler) : jOut.r.line <= k
        /\ jOut.r.line \in MalformedLines(Jobscript(jIn.lines), jIn.scheduler)

----------------------------------------------------------------------------
(* submit_tasks_to_scheduler *)
(* sEnv holds the arguments of the call: the number of parent tasks, the     *)
(* parent's --tasks-per-job, --scheduler, --email, --job-abbrev, walltime,   *)
(* memory and jobscript, and dryrun.  sCmds has one record per call of       *)
(* get_jobsubmit_cmd, sCalls one record per subprocess.call.                 *)

ARGDEF_JOB_ABBREV == <<"C", "o", "p", "y">>
ARGDEF_JOB_WALLTIME_HR == 1
ARGDEF_JOB_MEMORY_GB == 5

\* the exit status of the submission command: accepted or rejected
ExitStatuses == {0, 1}

\* a jobscript without conditional options and one with an option for each
\* scheduler
PlainScript == <<PlainLine>>
CondScript ==
    <<PlainLine,
      CondLine(CondoptKey(SCHED_PBS), <<"--x=1", "IF", "True", "ELSE", "--y=2">>),
      CondLine(CondoptKey(SCHED_SLURM), <<"--x=1", "IF", "False", "ELSE", "--y=2">>)>>

SubmitEnvs ==
    [ ntasks : 0..MaxSubmitTasks,
      tasks_per_job : {NoValue} \cup 1..MaxPerBundle,
      scheduler : Schedulers,
      email : EmailValues,
      job_abbrev : {ARGDEF_JOB_ABBREV},
      resources : {<<ARGDEF_JOB_WALLTIME_HR, ARGDEF_JOB_MEMORY_GB>>, <<NoValue, NoValue>>},
      lines : {PlainScript, CondScript},
      dryrun : BOOLEAN ]
    \cup
    [ ntasks : {ManyTasks},
      tasks_per_job : {NoValue},
      scheduler : {SCHED_PBS},
      email : {"user@host"},
      job_abbrev : {ARGDEF_JOB_ABBREV},
      resources : {<<ARGDEF_JOB_WALLTIME_HR, ARGDEF_JOB_MEMORY_GB>>},
      lines : {PlainScript},
      dryrun : {TRUE} ]

\* child_tasks: the parent tasks, or the bundle files of write_task_bundles
ChildTasks(e) ==
    IF e.tasks_per_job = NoValue
       THEN [i \in 1..e.ntasks |-> [kind |-> "task", name |-> Str(i)]]
       ELSE LET starts == BundleStarts(e.ntasks, e.tasks_per_job)
            IN  [k \in 1..Len(starts) |->
                    [kind |-> "bundle", name |-> BundleName(k, Len(starts))]]

\* num_jobs: len(child_tasks)
NumJobs(e) ==
    IF e.tasks_per_job = NoValue THEN e.ntasks
    ELSE Len(BundleStarts(e.ntasks, e.tasks_per_job))

\* the --email of the child: unset with the scheduler group, set again for the
\* last job when the parent has one
ChildEmail(job_num, num_jobs, last_job_email) ==
    IF job_num = num_jobs /\ Truthy(last_job_email) THEN last_job_email ELSE "False"

\* jobname_fmt.format(job_num)
JobNameUnnumbered(job_abbrev, job_num, num_jobs) == job_abbrev
JobName(job_abbrev, job_num, num_jobs) ==
    job_abbrev \o FormatIndex(job_num, IndexWidth(num_jobs))

\* one iteration of the loop over child_tasks
SubmitJob ==
    /\ spc = "run"
    /\ sJobNum < NumJobs(sEnv)
    /\ \E status \in ExitStatuses :
         LET job_num == sJobNum + 1
             num_jobs == NumJobs(sEnv)
             cmd_single == [task |-> ChildTasks(sEnv)[job_num],
                            email |-> ChildEmail(job_num, num_jobs, sEnv.email)]
             job_name == JobName(sEnv.job_abbrev, job_num, num_jobs)
             r == GetJobsubmitCmd(sEnv.scheduler, Jobscript(sEnv.lines), job_name,
                                  sEnv.resources[1], sEnv.resources[2], sEnv.email,
                                  <<"head.sh", sEnv.job_abbrev, cmd_single, "pyver">>)
         IN  /\ sJobNum' = job_num
             /\ sCmds' = Append(sCmds, [job |-> job_num, jobname |-> job_name,
                                        cmd_single |-> cmd_single, r |-> r])
             /\ IF r.error # "none"
                   THEN /\ spc' = "error"
                        /\ sErr' = r.error
                        /\ UNCHANGED sCalls
                   ELSE /\ sCalls' = IF sEnv.dryrun THEN sCalls
                                     ELSE Append(sCalls, [job |-> job_num, cmd |-> r.cmd,
                                                          status |-> status])
                        /\ UNCHANGED <<spc, sErr>>
    /\ UNCHANGED <<sEnv, jIn, jOut>>
    /\ UNCHANGED <<walkVars, execVars, bundleVars, mainVars, readVars, performVars, constructVars, iterVars, handoffVars>>

\* the loop is exhausted and the function returns
SubmitReturn ==
    /\ spc = "run"
    /\ sJobNum = NumJobs(sEnv)
    /\ spc' = "done"
    /\ UNCHANGED <<sEnv, sJobNum, sCmds, sCalls, sErr, jIn, jOut>>
    /\ UNCHANGED <<walkVars, execVars, bundleVars, mainVars, readVars, performVars, constructVars, iterVars, handoffVars>>

InitSubmit ==
    /\ sEnv \in SubmitEnvs
    /\ sJobNum = 0
    /\ sCmds = <<>>
    /\ sCalls = <<>>
    /\ sErr = "none"
    /\ spc = "run"
    /\ jIn = [n |-> 0]
    /\ jOut = [n |-> 0]
    /\ WalkIdle
    /\ ExecIdle
    /\ BundleIdle
    /\ MainIdle
    /\ ReadIdle
    /\ PerformIdle
    /\ ConstructIdle
    /\ IterIdle
    /\ HandoffIdle

NextSubmit == SubmitJob \/ SubmitReturn

SpecSubmit == InitSubmit /\ [][NextSubmit]_vars

\* the calls that submit: dryrun false
InitSubmitLive == InitSubmit /\ ~sEnv.dryrun

\* the function runs in one thread without blocking calls other than the
\* submission command itself: an iteration that can run, runs
SpecSubmitFair ==
    InitSubmitLive /\ [][NextSubmit]_vars /\ WF_vars(SubmitJob) /\ WF_vars(SubmitReturn)

----------------------------------------------------------------------------
(* Job names *)

DigitChars == {"0", "1", "2", "3", "4", "5", "6", "7", "8", "9"}
DigitValue(c) == CHOOSE k \in 0..9 : Digit(k) = <<c>>

RECURSIVE SeqValue(_)
SeqValue(s) ==
    IF s = <<>> THEN 0
    ELSE SeqValue(SubSeq(s, 1, Len(s) - 1)) * 10 + DigitValue(s[Len(s)])

RECURSIVE DigitCount(_)
DigitCount(n) == IF n < 10 THEN 1 ELSE 1 + DigitCount(n \div 10)

\* the job name option of a built command
NameOption(cmd) == cmd.items[2].val

\* C16: the i-th call of get_jobsubmit_cmd is for job i; its job name is the
\* abbreviation followed by i written in decimal and zero-padded to
\* max(3, number of digits of the job count), the built command carries that
\* name, and the name differs from the name of every earlier job of the call.
C16_JobNames ==
    spc # "idle" =>
      /\ Len(sCmds) = sJobNum
      /\ sCmds # <<>> =>
           LET i == Len(sCmds)
               name == sCmds[i].jobname
               la == Len(sEnv.job_abbrev)
               suffix == SubSeq(name, la + 1, Len(name))
           IN  /\ sCmds[i].job = i
               /\ SubSeq(name, 1, la) = sEnv.job_abbrev
               /\ Len(suffix) = Max(3, DigitCount(NumJobs(sEnv)))
               /\ \A k \in 1..Len(suffix) : suffix[k] \in DigitChars
               /\ SeqValue(suffix) = i
               /\ sCmds[i].r.error = "none" => NameOption(sCmds[i].r.cmd) = name
               /\ \A j \in 1..(i - 1) : sCmds[j].jobname # name

\* a finished batch of more than 999 jobs
C16_Witness ==
    /\ spc = "done"
    /\ Len(sCmds) > 999

----------------------------------------------------------------------------
(* Email *)

MailOptions == {"-m", "--mail-type", "--mail-user"}
HasMailOption(cmd) == \E k \in 1..Len(cmd.items) : cmd.items[k].opt \in MailOptions

\* C17: every submission command is built; with an email configured the
\* command of the last job carries a mail option and the email argument,
\* and the command of every other job, and every command when no email is
\* configured, carries neither.
C17_EmailOnlyLast ==
    spc # "idle" =>
      \A i \in 1..Len(sCmds) :
        /\ sCmds[i].r.error = "none"
        /\ IF i = NumJobs(sEnv) /\ Truthy(sEnv.email)
              THEN /\ HasMailOption(sCmds[i].r.cmd)
                   /\ Truthy(sCmds[i].cmd_single.email)
              ELSE /\ ~HasMailOption(sCmds[i].r.cmd)
                   /\ ~Truthy(sCmds[i].cmd_single.email)

----------------------------------------------------------------------------
(* Submission attempts *)

\* C19: with dryrun false the submission attempts are for jobs 1, 2, ... in
\* this order, one each, and eventually every job of the batch has had its
\* attempt, whatever the exit statuses.
C19_EveryJobSubmitted ==
    /\ [](spc # "idle" => \A i \in 1..Len(sCalls) : sCalls[i].job = i)
    /\ <>(spc # "idle" /\ ~sEnv.dryrun /\ Len(sCalls) = NumJobs(sEnv))

----------------------------------------------------------------------------
(* read_task_bundle with ncol_strict, ncol_min and ncol_max *)
(* The bundle files read here have at least one line, no blank lines and no  *)
(* header rows.                                                              *)

\* len(task) for every task of the split task list
RowWidths(rows) == [i \in 1..Len(rows) |-> Len(rows[i])]
MinOf(ns) == CHOOSE m \in {ns[i] : i \in 1..Len(ns)} : \A i \in 1..Len(ns) : m <= ns[i]
MaxOf(ns) == CHOOSE m \in {ns[i] : i \in 1..Len(ns)} : \A i \in 1..Len(ns) : m >= ns[i]

\* the checks of ncol_min and ncol_max against the smallest and largest width
NcolBoundsFail(lo, hi, ncol_min, ncol_max) ==
    \/ ncol_min # NoValue /\ lo < ncol_min
    \/ ncol_max # NoValue /\ hi > ncol_max

\* the pure-Python branch: with a bound given task_list_ncols is the list of
\* widths, or the common width, and never None; without bounds it is the
\* common width or None
ReadPythonNcol(lines, delim, ncol_strict, ncol_min, ncol_max) ==
    LET kept == NonBlank(lines)
        rows == [i \in 1..Len(kept) |->
                    LET parts == Split(kept[i], delim)
                    IN  [j \in 1..Len(parts) |-> Strip(parts[j])]]
        bounded == ncol_min # NoValue \/ ncol_max # NoValue
        ncols_is_none == IF bounded THEN FALSE
                         ELSE IF ncol_strict THEN ~SameWidth(rows)
                         ELSE TRUE
    IN  IF ncol_strict /\ ncols_is_none
           THEN [error |-> "DimensionError", tasks |-> <<>>]
        ELSE IF bounded /\ NcolBoundsFail(MinOf(RowWidths(rows)), MaxOf(RowWidths(rows)),
                                          ncol_min, ncol_max)
           THEN [error |-> "DimensionError", tasks |-> <<>>]
        ELSE [error |-> "none", tasks |-> Flatten1d(rows)]

\* the np.loadtxt branch: a row of another width than the first is "Wrong
\* number of columns"; the bounds are checked against the common width
ReadNumpyNcol(lines, delim, ncol_min, ncol_max) ==
    LET kept == NonBlank(lines)
        rows == [i \in 1..Len(kept) |-> Split(kept[i], delim)]
    IN  IF ~SameWidth(rows)
           THEN [error |-> "DimensionError", tasks |-> <<>>]
        ELSE IF NcolBoundsFail(Len(rows[1]), Len(rows[1]), ncol_min, ncol_max)
           THEN [error |-> "DimensionError", tasks |-> <<>>]
        ELSE [error |-> "none", tasks |-> Flatten1d(rows)]

\* read_task_bundle(bundle_file, args_delim, ncol_strict, ncol_min, ncol_max)
ReadTaskBundleNcol(lines, delim, ncol_strict, ncol_min, ncol_max, numpy) ==
    IF ncol_strict /\ numpy
       THEN ReadNumpyNcol(lines, delim, ncol_min, ncol_max)
       ELSE ReadPythonNcol(lines, delim, ncol_strict, ncol_min, ncol_max)

\* lines of one, two and three columns
RowPool == {<<"x">>, <<"x", ",", "y">>, <<"x", ",", "y", ",", "z">>}

ReadInputs ==
    [ lines : SeqsUpTo(RowPool, MaxRows) \ {<<>>},
      ncol_strict : BOOLEAN,
      ncol_min : {NoValue, 1, 2},
      ncol_max : {NoValue, 2, 3},
      numpy : BOOLEAN ]

ReadCall ==
    /\ rOut.n = 0
    /\ rIn.n = 1
    /\ rOut' = [n |-> 1,
                r |-> ReadTaskBundleNcol(rIn.lines, TaskDelim, rIn.ncol_strict,
                                         rIn.ncol_min, rIn.ncol_max, rIn.numpy)]
    /\ UNCHANGED rIn
    /\ UNCHANGED <<walkVars, execVars, bundleVars, mainVars, submitVars, performVars, constructVars, iterVars, handoffVars>>

InitRead ==
    /\ \E i \in ReadInputs :
         rIn = [n |-> 1, lines |-> i.lines, ncol_strict |-> i.ncol_strict,
                ncol_min |-> i.ncol_min, ncol_max |-> i.ncol_max, numpy |-> i.numpy]
    /\ rOut = [n |-> 0]
    /\ WalkIdle
    /\ ExecIdle
    /\ BundleIdle
    /\ MainIdle
    /\ SubmitIdle
    /\ PerformIdle
    /\ ConstructIdle
    /\ IterIdle
    /\ HandoffIdle

NextRead == ReadCall

SpecRead == InitRead /\ [][NextRead]_vars

\* the number of columns of a line: one more than its delimiters
ColCount(line) == Cardinality({k \in 1..Len(line) : line[k] = TaskDelim}) + 1

\* C20: a read with ncol_strict of a file in which two lines differ in their
\* number of columns raises DimensionError and returns no task list, with or
\* without ncol_min/ncol_max and on both reading paths.
C20_StrictColumnCount ==
    (/\ rOut.n = 1
     /\ rIn.ncol_strict
     /\ \E i, j \in 1..Len(rIn.lines) : ColCount(rIn.lines[i]) # ColCount(rIn.lines[j])) =>
        /\ rOut.r.error = "DimensionError"
        /\ rOut.r.tasks = <<>>

----------------------------------------------------------------------------
(* file_transfer.perform_tasks *)
(* pEnv holds the copy method options of the invocation and the task list;   *)
(* pLog has one record per handled task: the exec call made for it, or the   *)
(* generator object that the call of walk() returned.                        *)

\* the tasks: two file sources and two directory sources
PerformTaskPool ==
    { [src |-> <<"S", "a.txt">>, dst |-> <<"D", "a.txt">>],
      [src |-> <<"S", "skip.log">>, dst |-> <<"D", "skip.log">>],
      [src |-> <<"S", "sub">>, dst |-> <<"D", "sub">>],
      [src |-> <<"T">>, dst |-> <<"E">>] }

\* the files below a directory source that a complete traversal transfers
PerformDirFiles(d) ==
    IF d = <<"T">> THEN {<<"T", "t.txt">>}
    ELSE {f \in AllSrcFiles : IsUnder(f, d)}

PerformSrcFiles == AllSrcFiles \cup PerformDirFiles(<<"T">>)

PerformEnvs ==
    [ tasks : {t \in SeqsUpTo(PerformTaskPool, MaxPerformTasks) :
                  \A i, j \in 1..Len(t) : i # j => t[i] # t[j]},
      kind : WalkKinds,
      overwrite : BOOLEAN,
      dryrun : BOOLEAN,
      dst0 : DstStates ]

\* copy_method_obj after set_options
PerformCopyMethod(e) == [kind |-> e.kind, overwrite |-> e.overwrite, dryrun |-> e.dryrun]

\* calling the generator function walk() returns a generator object; the
\* body of walk() runs only when the object is iterated
GeneratorSteps(iterated, files) == IF iterated THEN files ELSE {}

\* one iteration of the loop over task_list
PerformTask ==
    /\ ppc = "run"
    /\ pIdx < Len(pEnv.tasks)
    /\ LET t == pEnv.tasks[pIdx + 1]
       IN  IF t.src \in pSrcs
              THEN \E fail \in BOOLEAN :
                     LET r == Exec(PerformCopyMethod(pEnv), t.src, t.dst, pSrcs, pFiles, fail)
                     IN  /\ pLog' = Append(pLog, [task |-> pIdx + 1, op |-> "exec",
                                                  src |-> t.src, dst |-> t.dst,
                                                  transfers |-> {t.src}])
                         /\ pFiles' = r.files
                         /\ pSrcs' = r.srcs
                         /\ ppc' = IF r.failed THEN "error" ELSE ppc
              ELSE /\ pLog' = Append(pLog, [task |-> pIdx + 1, op |-> "walk",
                                            src |-> t.src, dst |-> t.dst,
                                            transfers |->
                                                GeneratorSteps(FALSE, PerformDirFiles(t.src))])
                   /\ UNCHANGED <<pFiles, pSrcs, ppc>>
    /\ pIdx' = pIdx + 1
    /\ UNCHANGED pEnv
    /\ UNCHANGED <<walkVars, execVars, bundleVars, mainVars, submitVars, readVars, constructVars, iterVars, handoffVars>>

\* the loop is exhausted and perform_tasks returns
PerformReturn ==
    /\ ppc = "run"
    /\ pIdx = Len(pEnv.tasks)
    /\ ppc' = "done"
    /\ UNCHANGED <<pEnv, pIdx, pLog, pSrcs, pFiles>>
    /\ UNCHANGED <<walkVars, execVars, bundleVars, mainVars, submitVars, readVars, constructVars, iterVars, handoffVars>>

InitPerform ==
    /\ pEnv \in PerformEnvs
    /\ pIdx = 0
    /\ pLog = <<>>
    /\ pSrcs = PerformSrcFiles
    /\ pFiles = Dst0Files(pEnv.dst0)
    /\ ppc = "run"
    /\ WalkIdle
    /\ ExecIdle
    /\ BundleIdle
    /\ MainIdle
    /\ SubmitIdle
    /\ ReadIdle
    /\ ConstructIdle
    /\ IterIdle
    /\ HandoffIdle

NextPerform == PerformTask \/ PerformReturn

SpecPerform == InitPerform /\ [][NextPerform]_vars

\* C22: when perform_tasks has returned normally, every task of the list has
\* been handled once and in order: a file-source task by exactly one exec call
\* for its (source, destination), a directory-source task by a traversal that
\* issued the transfer call of every file below the directory.
C22_EveryTaskExecuted ==
    ppc = "done" =>
        /\ Len(pLog) = Len(pEnv.tasks)
        /\ \A i \in 1..Len(pLog) :
             /\ pLog[i].task = i
             /\ pLog[i].src = pEnv.tasks[i].src
             /\ pLog[i].dst = pEnv.tasks[i].dst
             /\ IF pEnv.tasks[i].src \in PerformSrcFiles
                   THEN pLog[i].op = "exec"
                   ELSE pLog[i].transfers = PerformDirFiles(pEnv.tasks[i].src)

----------------------------------------------------------------------------
(* WalkObject.__init__: the copy_method argument *)
(* cmHeap is the heap of CopyMethod objects, each reduced to its runtime     *)
(* options; the first ModuleMethods entries are the module-level strategies  *)
(* and COPY_METHOD_DICT maps method names to them.  wObjs has one record per *)
(* constructed WalkObject: the object its copy_method attribute refers to    *)
(* and the options its constructor was called with.                          *)

MaxObjects == 2

\* CopyMethod.__init__: the options of a new object
DefaultOptions == [copy_overwrite |-> FALSE, dryrun |-> FALSE, verbose |-> TRUE, debug |-> FALSE]

\* the module-level CopyMethod objects
COPY_METHOD_HARDLINK == 1
COPY_METHOD_SYMLINK == 2
COPY_METHOD_COPY_BASIC == 3
COPY_METHOD_COPY_PERMS == 4
COPY_METHOD_COPY_META == 5
COPY_METHOD_MOVE == 6
ModuleMethods == COPY_METHOD_MOVE

COPY_METHOD_DICT ==
    [name \in {"link", "hardlink", "symlink", "copy", "copy-basic", "copy-perms",
               "copy-meta", "move"} |->
        CASE name \in {"link", "hardlink"} -> COPY_METHOD_HARDLINK
          [] name = "symlink" -> COPY_METHOD_SYMLINK
          [] name \in {"copy", "copy-meta"} -> COPY_METHOD_COPY_META
          [] name = "copy-basic" -> COPY_METHOD_COPY_BASIC
          [] name = "copy-perms" -> COPY_METHOD_COPY_PERMS
          [] name = "move" -> COPY_METHOD_MOVE]

\* CopyMethod.set_options with all four arguments given
SetOptions(heap, id, opts) == [heap EXCEPT ![id] = opts]

\* CopyMethod.__copy__: a new object, its options set to those of the copied
CopyOf(heap, id) == Append(heap, heap[id])

\* a WalkObject without a copy method
NoMethod == 0

\* the copy_method arguments tried: no method, method names, a shell
\* program outside the dictionary, and the CopyMethod objects the caller can
\* name: a module-level strategy and the strategies of earlier WalkObjects
MethodNames == {"link", "hardlink", "copy"}
ShellCommands == {"cp"}
HeldMethods ==
    {COPY_METHOD_COPY_META}
    \cup {wObjs[i].copy_method : i \in {j \in 1..Len(wObjs) : wObjs[j].copy_method # NoMethod}}
MethodArgs ==
    {[type |-> "none", name |-> "", id |-> NoMethod]}
    \cup {[type |-> "str", name |-> n, id |-> NoMethod] : n \in MethodNames \cup ShellCommands}
    \cup {[type |-> "CopyMethod", name |-> "", id |-> i] : i \in HeldMethods}

\* WalkObject(copy_method, copy_overwrite, copy_dryrun, copy_silent, copy_debug)
Construct ==
    /\ kpc = "run"
    /\ Len(wObjs) < MaxObjects
    /\ \E copy_method \in MethodArgs, copy_overwrite \in BOOLEAN, copy_dryrun \in BOOLEAN,
          copy_silent \in BOOLEAN, copy_debug \in BOOLEAN :
         LET opts == [copy_overwrite |-> copy_overwrite, dryrun |-> copy_dryrun,
                      verbose |-> ~copy_silent, debug |-> copy_debug]
         IN  IF copy_silent /\ copy_dryrun
                THEN /\ kErr' = "InvalidArgumentError"
                     /\ kpc' = "error"
                     /\ UNCHANGED <<cmHeap, wObjs>>
                ELSE LET heap1 ==
                           CASE copy_method.type = "none" -> cmHeap
                             [] copy_method.type = "CopyMethod" -> CopyOf(cmHeap, copy_method.id)
                             [] copy_method.type = "str" ->
                                  IF copy_method.name \in DOMAIN COPY_METHOD_DICT
                                     THEN cmHeap
                                     ELSE Append(cmHeap, DefaultOptions)
                         id == CASE copy_method.type = "none" -> NoMethod
                                 [] copy_method.type = "CopyMethod" -> Len(heap1)
                                 [] copy_method.type = "str" ->
                                      IF copy_method.name \in DOMAIN COPY_METHOD_DICT
                                         THEN COPY_METHOD_DICT[copy_method.name]
                                         ELSE Len(heap1)
                     IN  /\ cmHeap' = IF id = NoMethod THEN heap1
                                      ELSE SetOptions(heap1, id, opts)
                         /\ wObjs' = Append(wObjs, [copy_method |-> id, arg |-> copy_method,
                                                    built |-> opts])
                         /\ UNCHANGED <<kErr, kpc>>
    /\ UNCHANGED <<walkVars, execVars, bundleVars, mainVars, submitVars, readVars, performVars, iterVars, handoffVars>>

InitConstruct ==
    /\ cmHeap = [i \in 1..ModuleMethods |-> DefaultOptions]
    /\ wObjs = <<>>
    /\ kErr = "none"
    /\ kpc = "run"
    /\ WalkIdle
    /\ ExecIdle
    /\ BundleIdle
    /\ MainIdle
    /\ SubmitIdle
    /\ ReadIdle
    /\ PerformIdle
    /\ IterIdle
    /\ HandoffIdle

NextConstruct == Construct

SpecConstruct == InitConstruct /\ [][NextConstruct]_vars

\* C26: after any sequence of constructions, the strategy held by every
\* WalkObject has the overwrite, dryrun, verbose and debug options that
\* WalkObject was constructed with, and a CopyMethod instance given as the
\* copy_method argument has the options it had before.
C26_ConstructionIsolated ==
    kpc # "idle" =>
      \A i \in 1..Len(wObjs) :
         wObjs[i].copy_method # NoMethod => cmHeap[wObjs[i].copy_method] = wObjs[i].built

----------------------------------------------------------------------------
(* walk() iterators of one WalkObject, advanced in any order *)
(* walk() is a generator: its body up to the first yield runs at the first   *)
(* next(), and each later next() resumes _walk after the yield of the        *)
(* directory reported last and runs to the yield of the next directory.      *)
(* The WalkObject has no filters and default depths, so every directory is   *)
(* yielded and one next() handles one directory.  copy_method_inst and       *)
(* collapse_tree_inst are attributes of the WalkObject, read by _walk when   *)
(* it uses them.                                                             *)

Iterators == {1, 2}
OtherRoot == <<"E">>

\* an argument of walk() that may be left out
OptionalBool == {"None", "True", "False"}
ArgValue(arg, default) == IF arg = "None" THEN default ELSE arg = "True"

IterObjects ==
    [ kind : {"copy"}, overwrite : BOOLEAN, collapse : BOOLEAN, dryrun : {FALSE} ]

\* the first iterator walks into D, the other into D as well or into E
IterArgs(i) ==
    [ dstdir : IF i = 1 THEN {DstRoot} ELSE {DstRoot, OtherRoot},
      copy_overwrite : OptionalBool,
      collapse_tree : OptionalBool ]

FNamesOf(entries) == SelectSeq(entries, LAMBDA e : ~e.isdir)

\* _walk: frames whose loop over dnames is exhausted return
RECURSIVE Unwind(_)
Unwind(stk) ==
    IF stk = <<>> THEN <<>>
    ELSE LET top == stk[Len(stk)]
         IN  IF top.didx < Len(DNamesOf(Listing(top.srcdir))) THEN stk
             ELSE Unwind(SubSeq(stk, 1, Len(stk) - 1))

\* _walk: the recursive call for the next subdirectory of the top frame
Descend(stk, collapse_tree_inst) ==
    LET top == stk[Len(stk)]
        dn == DNamesOf(Listing(top.srcdir))[top.didx + 1]
        dstdir_next == IF collapse_tree_inst THEN top.dstdir ELSE Join(top.dstdir, dn)
    IN  Append([stk EXCEPT ![Len(stk)].didx = top.didx + 1],
               [srcdir |-> Join(top.srcdir, dn), dstdir |-> dstdir_next, didx |-> 0])

\* _walk: the copy loop of one directory from file k on; the primitive
\* raises at file failAt
RECURSIVE CopyLoop(_, _, _, _, _, _, _, _)
CopyLoop(i, cm, collapse, frame, fnames, k, failAt, st) ==
    IF k > Len(fnames) \/ st.failed THEN st
    ELSE LET srcfile == Join(frame.srcdir, fnames[k].name)
             dstfile == Join(frame.dstdir, fnames[k].name)
             r == Exec(cm, srcfile, dstfile, AllSrcFiles, st.files, k = failAt)
         IN  CopyLoop(i, cm, collapse, frame, fnames, k + 1, failAt,
                      [files |-> r.files,
                       failed |-> r.failed,
                       log |-> Append(st.log, [it |-> i, src |-> srcfile, dst |-> dstfile,
                                               copy_overwrite |-> cm.overwrite,
                                               collapse_tree |-> collapse])])

\* next(it) for iterator i
IterNext(i) ==
    /\ tpc = "run"
    /\ tIts[i].state \in {"created", "suspended"}
    /\ LET it == tIts[i]
           first == it.state = "created"
           \* walk(): the attributes assigned before _walk is called
           obj == IF first
                     THEN [tObj EXCEPT
                             !.dstdir = it.dstdir,
                             !.copy_method_inst_overwrite =
                                 ArgValue(it.copy_overwrite, tObj.overwrite),
                             !.collapse_tree_inst =
                                 ArgValue(it.collapse_tree, tObj.collapse)]
                     ELSE tObj
           rest == IF first THEN <<>> ELSE Unwind(it.stack)
       IN  /\ tObj' = obj
           /\ IF first /\ it.dstdir \in tDirs
                 THEN \* walk(): os.makedirs of a directory that exists
                      /\ tIts' = [tIts EXCEPT ![i].state = "error",
                                              ![i].err = "FileExistsError"]
                      /\ UNCHANGED <<tDirs, tFiles, tLog>>
                 ELSE IF ~first /\ rest = <<>>
                 THEN /\ tIts' = [tIts EXCEPT ![i].state = "done", ![i].stack = <<>>]
                      /\ UNCHANGED <<tDirs, tFiles, tLog>>
                 ELSE LET stk == IF first
                                    THEN <<[srcdir |-> SrcRoot, dstdir |-> it.dstdir, didx |-> 0]>>
                                    ELSE Descend(rest, obj.collapse_tree_inst)
                          frame == stk[Len(stk)]
                          cm == [kind |-> obj.kind,
                                 overwrite |-> obj.copy_method_inst_overwrite,
                                 dryrun |-> obj.dryrun]
                          fnames == FNamesOf(Listing(frame.srcdir))
                      IN  \E failAt \in 0..Len(fnames) :
                             LET st == CopyLoop(i, cm, obj.collapse_tree_inst, frame, fnames,
                                                1, failAt,
                                                [files |-> tFiles, failed |-> FALSE,
                                                 log |-> tLog])
                             IN  /\ tDirs' = MakeDirs(tDirs, frame.dstdir)
                                 /\ tFiles' = st.files
                                 /\ tLog' = st.log
                                 /\ tIts' = [tIts EXCEPT
                                               ![i].stack = stk,
                                               ![i].state = IF st.failed THEN "error"
                                                            ELSE "suspended",
                                               ![i].err = IF st.failed THEN "TransferError"
                                                          ELSE "none"]
    /\ UNCHANGED tpc
    /\ UNCHANGED <<walkVars, execVars, bundleVars, mainVars, submitVars, readVars, performVars, constructVars, handoffVars>>

InitIter ==
    /\ \E o \in IterObjects :
         tObj = [kind |-> o.kind, overwrite |-> o.overwrite, collapse |-> o.collapse,
                 dryrun |-> o.dryrun, dstdir |-> None,
                 copy_method_inst_overwrite |-> o.overwrite,
                 collapse_tree_inst |-> o.collapse]
    /\ \E args \in {f \in [Iterators -> UNION {IterArgs(i) : i \in Iterators}] :
                        \A i \in Iterators : f[i] \in IterArgs(i)} :
         tIts = [i \in Iterators |->
                   [dstdir |-> args[i].dstdir, copy_overwrite |-> args[i].copy_overwrite,
                    collapse_tree |-> args[i].collapse_tree,
                    state |-> "created", err |-> "none", stack |-> <<>>]]
    /\ tDirs = {}
    /\ tFiles = [p \in {} |-> <<"old">>]
    /\ tLog = <<>>
    /\ tpc = "run"
    /\ WalkIdle
    /\ ExecIdle
    /\ BundleIdle
    /\ MainIdle
    /\ SubmitIdle
    /\ ReadIdle
    /\ PerformIdle
    /\ ConstructIdle
    /\ HandoffIdle

NextIter == \E i \in Iterators : IterNext(i)

SpecIter == InitIter /\ [][NextIter]_vars

\* the settings of iterator i's own walk() call
OwnOverwrite(i) == ArgValue(tIts[i].copy_overwrite, tObj.overwrite)
OwnCollapse(i) == ArgValue(tIts[i].collapse_tree, tObj.collapse)

\* the destination of source file f under iterator i's own settings
OwnDst(i, f) ==
    IF OwnCollapse(i) THEN Join(tIts[i].dstdir, Basename(f))
    ELSE tIts[i].dstdir \o SubSeq(f, Len(SrcRoot) + 1, Len(f))

\* C27: every exec call made by an iterator runs with the copy_overwrite of
\* that iterator's own walk() call and targets the destination path given by
\* that call's dstdir and collapse_tree, however the steps of the two
\* iterators are interleaved.
C27_IteratorsIndependent ==
    tpc # "idle" =>
      \A k \in 1..Len(tLog) :
         /\ tLog[k].copy_overwrite = OwnOverwrite(tLog[k].it)
         /\ tLog[k].dst = OwnDst(tLog[k].it, tLog[k].src)

----------------------------------------------------------------------------
(* file_transfer.py: the scheduler path, from the parent's bundle files to   *)
(* the task lists of the child invocations                                   *)
(* The parent has --tasks-per-job set, so every child is started with one    *)
(* bundle file as its --srclist, without --dst, and with the parent's        *)
(* --srclist-delim.                                                          *)

ARGSTR_SRCLIST_DELIM == <<"-", "-", "s", "r", "c", "l", "i", "s", "t", "-", "d", "e", "l", "i", "m">>
ARGDEF_SRCLIST_DELIM == ","

\* values of --srclist-delim
SrclistDelims == {ARGDEF_SRCLIST_DELIM, ";"}

\* task_delim.join(fields) for a task_delim of any length
RECURSIVE JoinStr(_, _)
JoinStr(fields, delim) ==
    IF Len(fields) = 0 THEN <<>>
    ELSE IF Len(fields) = 1 THEN fields[1]
    ELSE fields[1] \o delim \o JoinStr(Tail(fields), delim)

\* main: the task_delim it hands to submit_tasks_to_scheduler
HandoffTaskDelim(e) == ARGSTR_SRCLIST_DELIM

\* read_task_bundle as main calls it for a --srclist file: the rows of the
\* header or of the task part, split on args_delim, under ncol_min = 1 and
\* ncol_max = 2
SrclistRows(lines, delim, numpy, read_header) ==
    LET kept == NonBlank(lines)
        part == IF read_header THEN SubSeq(kept, 1, Min(1, Len(kept)))
                ELSE SubSeq(kept, 2, Len(kept))
        rows == [i \in 1..Len(part) |->
                    LET parts == Split(part[i], delim)
                    IN  [j \in 1..Len(parts) |-> IF numpy THEN parts[j] ELSE Strip(parts[j])]]
    IN  IF rows = <<>> THEN [error |-> "none", rows |-> <<>>]
        ELSE IF ~SameWidth(rows) \/ Len(rows[1]) > 2
                THEN [error |-> "DimensionError", rows |-> <<>>]
        ELSE [error |-> "none", rows |-> rows]

\* main: the task list the child builds from its --srclist file
ChildTasklist(lines, delim, numpy) ==
    LET h == SrclistRows(lines, delim, numpy, TRUE)
        t == SrclistRows(lines, delim, numpy, FALSE)
        header == IF h.rows = <<>> THEN <<>> ELSE h.rows[1]
    IN  IF h.error # "none" THEN [error |-> h.error, tasks |-> <<>>]
        ELSE IF header = <<>> THEN [error |-> "none", tasks |-> <<>>]
        ELSE IF Len(header) # 2 THEN [error |-> "DimensionError", tasks |-> <<>>]
        ELSE IF t.error # "none" THEN [error |-> t.error, tasks |-> <<>>]
        ELSE IF t.rows = <<>> THEN [error |-> "none", tasks |-> <<header>>]
        ELSE IF Len(t.rows[1]) = 2 THEN [error |-> "none", tasks |-> <<header>> \o t.rows]
        ELSE [error |-> "none",
              tasks |-> << <<header[1], header[2]>> >>
                        \o [i \in 1..Len(t.rows) |-> <<t.rows[i][1], header[2]>>]]

\* submit_tasks_to_scheduler: write_task_bundles(parent_tasks, tasks_per_job, ...)
HandoffWrite ==
    /\ hpc = "parent"
    /\ LET starts == BundleStarts(Len(hEnv.tasks), hEnv.tasks_per_job)
       IN  hFiles' = [k \in 1..Len(starts) |->
                        LET bundle == TaskSlice(hEnv.tasks, starts[k], hEnv.tasks_per_job)
                        IN  [i \in 1..Len(bundle) |-> JoinStr(bundle[i], HandoffTaskDelim(hEnv))]]
    /\ hpc' = "children"
    /\ UNCHANGED <<hEnv, hRead>>
    /\ UNCHANGED <<walkVars, execVars, bundleVars, mainVars, submitVars, readVars, performVars, constructVars, iterVars>>

\* the child invocation of the next job parses its --srclist
HandoffChild ==
    /\ hpc = "children"
    /\ Len(hRead) < Len(hFiles)
    /\ hRead' = Append(hRead, ChildTasklist(hFiles[Len(hRead) + 1], hEnv.delim, hEnv.numpy))
    /\ UNCHANGED <<hEnv, hFiles, hpc>>
    /\ UNCHANGED <<walkVars, execVars, bundleVars, mainVars, submitVars, readVars, performVars, constructVars, iterVars>>

InitHandoff ==
    /\ hEnv \in [ tasks : SeqsUpTo(TaskPool, MaxTasks) \ {<<>>},
                  tasks_per_job : 1..MaxPerBundle,
                  delim : SrclistDelims,
                  numpy : BOOLEAN ]
    /\ hFiles = <<>>
    /\ hRead = <<>>
    /\ hpc = "parent"
    /\ WalkIdle
    /\ ExecIdle
    /\ BundleIdle
    /\ MainIdle
    /\ SubmitIdle
    /\ ReadIdle
    /\ PerformIdle
    /\ ConstructIdle
    /\ IterIdle

NextHandoff == HandoffWrite \/ HandoffChild

SpecHandoff == InitHandoff /\ [][NextHandoff]_vars

\* tasks whose paths hold neither a --srclist-delim value nor blanks
PlainTask(task) ==
    \A j \in 1..Len(task) : \A k \in 1..Len(task[j]) :
       task[j][k] \notin SrclistDelims \cup {" "}

\* C30: the child of job k parses its bundle without error into the tasks
\* of the k-th slice of the parent's task list, in order, whenever the
\* paths of these tasks hold no delimiter and no blank.
C30_HandoffPreservesTasks ==
    hpc # "idle" =>
      \A k \in 1..Len(hRead) :
         LET bundle == TaskSlice(hEnv.tasks, (k - 1) * hEnv.tasks_per_job, hEnv.tasks_per_job)
         IN  (\A i \in 1..Len(bundle) : PlainTask(bundle[i])) =>
                /\ hRead[k].error = "none"
                /\ hRead[k].tasks = bundle

====
